---------------------------- MODULE Spec2Model ----------------------------
(***************************************************************************)
(* A model of the emoji/sticker pack bot: the ledger (sqlite tables        *)
(* users, packs, pack_items), the per-user flow dictionaries, the          *)
(* conversation handlers registered by build_app, the remote sticker-set   *)
(* API, and the duplicate loop of sticker.py.                              *)
(*                                                                         *)
(* One action is one handler invocation, selected the way the dispatcher   *)
(* selects it: the handlers of build_app are tried in registration order   *)
(* and the first one that accepts the update handles it; a conversation    *)
(* handler accepts an update through its entry points when the user is not *)
(* in the conversation, and through the handlers of the current state and  *)
(* then the fallbacks when the user is in it.  All chats are private.      *)
(***************************************************************************)
EXTENDS Integers, Sequences, FiniteSets, Bags, TLC

\* ------------------------------------------------------------------ bounds

\* user ids 1..MaxUsers; user 1 is the owner
MaxUsers == 2
\* rows the packs table may hold before the model stops creating packs
MaxPacks == 2
\* file ids 1..MaxFiles of the stickers and photos users send
MaxFiles == 1
\* number of items of the long source pack of the duplicate loop
MaxSrcLen == 23
\* duplicate settlements the model runs
MaxDups == 1
MaxInflight == 2

\* --------------------------------------------------------- configuration

OWNER_ID == 1

\* the item caps are read from the environment (defaults 30, 40, 120); the
\* model runs the deployment FREE_MAX_STICKERS=2 FREE_MAX_EMOJIS=3
\* PAID_MAX_ITEMS=4
FREE_MAX_STICKERS == 2
FREE_MAX_EMOJIS == 3
PAID_MAX_ITEMS == 4

FREE_PACK_NAME_MIN_LEN == 4
FREE_PACK_NAME_MAX_LEN == 12
PAID_PACK_NAME_MIN_LEN == 1
PAID_PACK_NAME_MAX_LEN == 32

\* the interval of the cooperative pause in the duplicate loop
YieldEvery == 10

Users == 1..MaxUsers
PackTypes == {"emoji", "sticker"}

\* ------------------------------------------------------------ text and slugs

\* strings are sequences of one-character strings
Rep(c, n) == [i \in 1..n |-> c]

LowerOf ==
  [c \in {"A", "B", "C", "D"} |->
     CASE c = "A" -> "a" [] c = "B" -> "b" [] c = "C" -> "c" [] OTHER -> "d"]

\* [a-zA-Z0-9_]
IsSlugChar(c) ==
  c \in {"a", "b", "c", "d", "e", "f", "g", "h", "i", "j", "k", "l", "m", "n",
         "o", "p", "q", "r", "s", "t", "u", "v", "w", "x", "y", "z",
         "A", "B", "C", "D", "0", "1", "2", "3", "4", "5", "6", "7", "8", "9",
         "_"}

Lower(c) == IF c \in DOMAIN LowerOf THEN LowerOf[c] ELSE c

\* str.strip(): leading and trailing blanks removed
RECURSIVE StripLeft(_)
StripLeft(s) ==
  IF s # <<>> /\ Head(s) = " " THEN StripLeft(Tail(s)) ELSE s

RECURSIVE StripRight(_)
StripRight(s) ==
  IF s # <<>> /\ s[Len(s)] = " " THEN StripRight(SubSeq(s, 1, Len(s) - 1)) ELSE s

Strip(s) == StripRight(StripLeft(s))

\* re.sub(r"[^a-zA-Z0-9_]+", "_", base): every maximal run of other
\* characters becomes one underscore
RECURSIVE SubRuns(_, _)
SubRuns(s, inRun) ==
  IF s = <<>> THEN <<>>
  ELSE IF IsSlugChar(Head(s)) THEN <<Head(s)>> \o SubRuns(Tail(s), FALSE)
  ELSE IF inRun THEN SubRuns(Tail(s), TRUE)
  ELSE <<"_">> \o SubRuns(Tail(s), TRUE)

RECURSIVE StripUnderLeft(_)
StripUnderLeft(s) ==
  IF s # <<>> /\ Head(s) = "_" THEN StripUnderLeft(Tail(s)) ELSE s

RECURSIVE StripUnderRight(_)
StripUnderRight(s) ==
  IF s # <<>> /\ s[Len(s)] = "_"
  THEN StripUnderRight(SubSeq(s, 1, Len(s) - 1)) ELSE s

normalize_pack_name(base) ==
  LET t == StripUnderRight(StripUnderLeft(SubRuns(base, FALSE)))
  IN  [i \in 1..Len(t) |-> Lower(t[i])]

\* the username get_me() reports
BotUsername == <<"b", "o", "t">>

Digit(n) ==
  CASE n = 0 -> "0" [] n = 1 -> "1" [] n = 2 -> "2" [] n = 3 -> "3"
    [] n = 4 -> "4" [] n = 5 -> "5" [] n = 6 -> "6" [] n = 7 -> "7"
    [] n = 8 -> "8" [] OTHER -> "9"

\* str(n) of a small natural
Str(n) == IF n < 10 THEN <<Digit(n)>> ELSE <<Digit(n \div 10), Digit(n % 10)>>

NoSlug == <<>>


\* ------------------------------------------------------------- messages

NoFile == <<"none", 0>>
FileIds == {<<"file", i>> : i \in 1..MaxFiles}
\* the file_id column of a generated first item, and of every add-to row
GENERATED == <<"GENERATED", 0>>
FILE == <<"FILE", 0>>
\* an uploaded PNG rendered from text: it has no file id before the upload
PNG == <<"png", 0>>

TextMsg(t) == [kind |-> "text", text |-> t, file |-> NoFile]
\* message.sticker with is_custom_emoji false / true, and message.photo
StickerMsg(f) == [kind |-> "sticker", text |-> <<>>, file |-> f]
EmojiMsg(f) == [kind |-> "cemoji", text |-> <<>>, file |-> f]
PhotoMsg(f) == [kind |-> "photo", text |-> <<>>, file |-> f]
NoMsg == [kind |-> "none", text |-> <<>>, file |-> NoFile]

\* the texts users send: pack names and text items
NameShort == <<"a", "b">>
NameOk == <<"A", "b", "-", "c">>
Texts == {NameShort, NameOk}
\* names at the edges of the two length ranges, one of them padded with blanks
EdgeNames ==
  {Rep("a", n) : n \in {1, 3, 4, 12, 13, 32, 33}}
    \cup {<<" ">> \o Rep("a", 3) \o <<" ">>, <<" ", " ">>, <<"-">>}

ItemMsgs ==
  {StickerMsg(f) : f \in FileIds} \cup {EmojiMsg(f) : f \in FileIds}
    \cup {PhotoMsg(f) : f \in FileIds}
Msgs == ItemMsgs \cup {TextMsg(t) : t \in Texts}

\* --------------------------------------------------------------- state

VARIABLES
  users,          \* table users: user id -> row (exists FALSE: no row yet)
  packs,          \* table packs: the rows in pack_id order, pack_id = index
  pack_items,     \* table pack_items: a bag of rows
  conv,           \* the state of each user's four conversations
  pending_create, \* the flow dictionaries, user id -> entry
  pending_remove,
  pending_delete,
  pending_acr,
  user_data,      \* context.user_data["pending_add_item_msg_id"], by content
  remote,         \* the platform's sticker sets: slug -> items in order
  dup,            \* the duplicate settlement in progress
  invoices,       \* the payloads of the invoices sent and not yet paid
  settings,       \* the settings table: owner_items_for_sale
  inflight,       \* the add-to presses suspended at an await, oldest first
  open_prompts,   \* per user, the item messages whose choose-a-pack prompt was
                  \* sent after the user's last button press: these prompts
                  \* still carry their buttons
  last            \* the handler that ran last, its reply and its remote calls

ledgerVars == <<users, packs, pack_items>>
pendingVars == <<pending_create, pending_remove, pending_delete, pending_acr>>
flowVars == <<conv, pending_create, pending_remove, pending_delete, pending_acr,
              user_data>>
vars == <<users, packs, pack_items, conv, pending_create, pending_remove,
          pending_delete, pending_acr, user_data, remote, dup, invoices, settings,
          inflight, open_prompts, last>>

END == "END"
CREATE_WAIT_NAME == "CREATE_WAIT_NAME"
CREATE_WAIT_FIRST_ITEM == "CREATE_WAIT_FIRST_ITEM"
REM_WAIT_PACK_SELECT == "REM_WAIT_PACK_SELECT"
REM_WAIT_ITEM == "REM_WAIT_ITEM"
DELETE_WAIT_PACK_SELECT == "DELETE_WAIT_PACK_SELECT"
ACR_WAIT_INPUT == "ACR_WAIT_INPUT"
ACR_WAIT_FONT == "ACR_WAIT_FONT"
ACR_WAIT_BG == "ACR_WAIT_BG"

NoUserRow ==
  [exists |-> FALSE, is_paid |-> FALSE, is_admin |-> FALSE,
   free_pack_uses |-> 0, adaptive_pack_name |-> NoSlug]
NewUserRow == [NoUserRow EXCEPT !.exists = TRUE]

NoCreate ==
  [present |-> FALSE, type |-> "none", is_paid |-> FALSE, named |-> FALSE,
   title |-> <<>>, slug |-> NoSlug]
NoRemove == [present |-> FALSE, pack_id |-> 0]
NoDelete == [present |-> FALSE, type |-> "none", pack_id |-> 0]
NoAcr ==
  [present |-> FALSE, mode |-> "none", text |-> <<>>, file |-> NoFile,
   font_idx |-> -1, bg |-> "none"]

\* ------------------------------------------------------ ledger accessors

\* a lookup that writes a fresh row every time
ResetUserRow(us, u) == [us EXCEPT ![u] = NewUserRow]

get_or_create_user(us, u) ==
  IF us[u].exists THEN us ELSE [us EXCEPT ![u] = NewUserRow]

\* UPDATE users SET field=? WHERE user_id=?: no row, no change
set_user_is_paid(us, u) ==
  IF us[u].exists THEN [us EXCEPT ![u].is_paid = TRUE] ELSE us

set_user_adaptive(us, u, slug) ==
  IF us[u].exists THEN [us EXCEPT ![u].adaptive_pack_name = slug] ELSE us

PackLink(type, slug) ==
  [path |-> IF type = "emoji" THEN "addemoji" ELSE "addstickers", slug |-> slug]

PackRow(u, slug, title, type, paid) ==
  [user_id |-> u, name |-> slug, title |-> title, type |-> type,
   is_paid_pack |-> paid, pack_link |-> PackLink(type, slug)]

\* INSERT OR REPLACE over the newest row
InsertOrReplacePack(ps, row) ==
  IF ps = <<>> THEN <<row>> ELSE [ps EXCEPT ![Len(ps)] = row]

insert_pack(ps, row) == Append(ps, row)

\* the pack ids of a user's packs, all types or one type
find_user_packs(ps, u, type) ==
  {p \in 1..Len(ps) : ps[p].user_id = u /\ (type = "any" \/ ps[p].type = type)}

ItemRow(p, f, type) == [pack_id |-> p, file_id |-> f, type |-> type]

insert_pack_item(items, row) == items (+) SetToBag({row})

RECURSIVE SumCopies(_, _)
SumCopies(items, rows) ==
  IF rows = {} THEN 0
  ELSE LET r == CHOOSE x \in rows : TRUE
       IN  CopiesIn(r, items) + SumCopies(items, rows \ {r})

count_pack_items(items, p) ==
  SumCopies(items, {r \in BagToSet(items) : r.pack_id = p})

\* DELETE FROM pack_items WHERE pack_id=? AND file_id=?
remove_pack_item_if_exists(items, p, f) ==
  LET keep == {r \in BagToSet(items) : ~(r.pack_id = p /\ r.file_id = f)}
  IN  [r \in keep |-> items[r]]

\* ------------------------------------------------------------ the remote

\* items a set may hold before the model stops the user-driven appends
MaxRemoteLen == 4

RemoteCall(op, slug, item, ok) ==
  [op |-> op, slug |-> slug, item |-> item, ok |-> ok]

\* create_new_sticker_set can succeed only for a fresh, non-empty name
CanCreateRemote(rem, slug) == slug # NoSlug /\ slug \notin DOMAIN rem

\* add_sticker_to_set can succeed only on an existing set
CanAppendRemote(rem, slug) == slug \in DOMAIN rem

RemoteCreate(rem, slug, item) == rem @@ (slug :> <<item>>)
RemoteAppend(rem, slug, item) == [rem EXCEPT ![slug] = Append(@, item)]

\* no conversation of a user is running
NoConv == [create |-> END, acr |-> END, rem |-> END, delete |-> END]

\* the event a handler has just answered: its callback, the user, the reply,
\* the calls it made, and the user's conversation states when it arrived
\* payload: the invoice payload the update carries, <<>> if it carries none
EventWith(h, u, reply, calls, payload) ==
  [h |-> h, u |-> u, reply |-> reply, calls |-> calls,
   from |-> IF u \in Users THEN conv[u] ELSE NoConv, payload |-> payload]

Event(h, u, reply, calls) == EventWith(h, u, reply, calls, <<>>)

\* ----------------------------------------------------------- dispatcher

Upd(t, kind) == [t |-> t, kind |-> kind]
MsgUpd(m) == Upd("msg", m.kind)
CmdUpd(name) == Upd("cmd", name)
CbUpd(prefix) == Upd("cb", prefix)

NoRoute == [cb |-> "none", via |-> "none"]
Via(c, cb) == [cb |-> cb, via |-> c]

\* filters.TEXT & ~filters.COMMAND
IsText(upd) == upd.t = "msg" /\ upd.kind = "text"
\* (filters.Sticker.ALL | filters.PHOTO) & ~filters.COMMAND
IsStickerOrPhoto(upd) == upd.t = "msg" /\ upd.kind \in {"sticker", "cemoji", "photo"}
\* (filters.Sticker.ALL | filters.PHOTO | filters.TEXT) & ~filters.COMMAND
IsAnyItem(upd) == IsText(upd) \/ IsStickerOrPhoto(upd)
IsCmd(upd, name) == upd.t = "cmd" /\ upd.kind = name
IsCb(upd, prefix) == upd.t = "cb" /\ upd.kind = prefix

\* the create conversation still taking item messages once it has ended
CreateConvStillOpen(state, upd) ==
  IF state = END
  THEN IF IsCmd(upd, "create") THEN Via("create", "create_cmd")
       ELSE IF IsAnyItem(upd) THEN Via("create", "create_receive_first_item")
       ELSE NoRoute
  ELSE IF state = CREATE_WAIT_NAME /\ IsText(upd)
  THEN Via("create", "create_receive_name")
  ELSE IF state = CREATE_WAIT_FIRST_ITEM /\ IsAnyItem(upd)
  THEN Via("create", "create_receive_first_item")
  ELSE IF IsCmd(upd, "cancel") THEN Via("create", "cancel_all")
  ELSE NoRoute

\* a conversation handler: entry points outside the conversation, else the
\* handlers of the current state, else the fallbacks
CreateConv(state, upd) ==
  IF state = END
  THEN IF IsCmd(upd, "create") THEN Via("create", "create_cmd") ELSE NoRoute
  ELSE IF state = CREATE_WAIT_NAME /\ IsText(upd)
  THEN Via("create", "create_receive_name")
  ELSE IF state = CREATE_WAIT_FIRST_ITEM /\ IsAnyItem(upd)
  THEN Via("create", "create_receive_first_item")
  ELSE IF IsCmd(upd, "cancel") THEN Via("create", "cancel_all")
  ELSE NoRoute

AcrConv(state, upd) ==
  IF state = END
  THEN IF IsCmd(upd, "acr") THEN Via("acr", "acr") ELSE NoRoute
  ELSE IF state = ACR_WAIT_INPUT /\ IsAnyItem(upd)
  THEN Via("acr", "acr_receive")
  ELSE IF state = ACR_WAIT_FONT /\ IsCb(upd, "acr_font")
  THEN Via("acr", "acr_font_choice")
  ELSE IF state = ACR_WAIT_BG /\ IsCb(upd, "acr_bg")
  THEN Via("acr", "acr_bg_choice")
  ELSE IF IsCmd(upd, "cancel") THEN Via("acr", "cancel_all")
  ELSE NoRoute

RemConv(state, upd) ==
  IF state = END
  THEN IF IsCmd(upd, "rem") THEN Via("rem", "rem") ELSE NoRoute
  ELSE IF state = REM_WAIT_PACK_SELECT /\ IsCb(upd, "rempick")
  THEN Via("rem", "rem_pack_pick")
  ELSE IF state = REM_WAIT_ITEM /\ IsStickerOrPhoto(upd)
  THEN Via("rem", "rem_receive_item")
  ELSE IF IsCmd(upd, "cancel") THEN Via("rem", "cancel_all")
  ELSE IF IsCb(upd, "remconf") THEN Via("rem", "rem_confirm")
  ELSE NoRoute

DeleteConv(state, upd) ==
  IF state = END
  THEN IF IsCmd(upd, "delete") THEN Via("delete", "delete_cmd") ELSE NoRoute
  ELSE IF state = DELETE_WAIT_PACK_SELECT /\ IsCb(upd, "delpick")
  THEN Via("delete", "del_pack_pick")
  ELSE IF state = DELETE_WAIT_PACK_SELECT /\ IsStickerOrPhoto(upd)
  THEN Via("delete", "delete_receive_item")
  ELSE IF IsCmd(upd, "cancel") THEN Via("delete", "cancel_all")
  ELSE IF IsCb(upd, "remconf") THEN Via("delete", "rem_confirm")
  ELSE NoRoute

Plain(upd, t, kind, cb) ==
  IF upd.t = t /\ upd.kind = kind THEN Via("none", cb) ELSE NoRoute

\* the handlers in the order build_app registers them
HandlerOrder ==
  <<"start", "help", "mypack", "create_conv", "apack", "acr_conv",
    "incoming_item", "addto_callback", "mypack_select", "duplicate",
    "rem_conv", "rem_confirm", "delete_conv", "bpack", "admin", "broadcast",
    "set", "precheckout", "successful_payment", "export", "import">>

\* what handler h answers for an update of user state c (its conversations)
Accepts(h, c, upd) ==
  CASE h = "create_conv" -> CreateConv(c.create, upd)
    [] h = "acr_conv" -> AcrConv(c.acr, upd)
    [] h = "rem_conv" -> RemConv(c.rem, upd)
    [] h = "delete_conv" -> DeleteConv(c.delete, upd)
    [] h = "incoming_item" ->
         IF IsAnyItem(upd) THEN Via("none", "incoming_item") ELSE NoRoute
    [] h = "addto_callback" -> Plain(upd, "cb", "addto", "addto_callback")
    [] h = "mypack_select" -> Plain(upd, "cb", "mypack", "mypack_select")
    [] h = "rem_confirm" -> Plain(upd, "cb", "remconf", "rem_confirm")
    [] h = "precheckout" -> Plain(upd, "precheckout", "", "precheckout_handler")
    [] h = "successful_payment" ->
         Plain(upd, "payment", "", "successful_payment_handler")
    [] OTHER -> Plain(upd, "cmd", h, h)

RECURSIVE FirstMatch(_, _, _)
FirstMatch(hs, c, upd) ==
  IF hs = <<>> THEN NoRoute
  ELSE LET r == Accepts(Head(hs), c, upd)
       IN  IF r # NoRoute THEN r ELSE FirstMatch(Tail(hs), c, upd)

\* the callback that handles an update of user u, and the conversation whose
\* state its return value sets
Route(u, upd) == FirstMatch(HandlerOrder, conv[u], upd)

\* the conversation state after a callback reached through conversation via
\* returned new (ConversationHandler.END ends it, None leaves it)
ConvAfter(u, via, new) ==
  IF via = "none" \/ new = "None" THEN conv
  ELSE [conv EXCEPT ![u][via] = new]

\* an update no handler accepts is dropped by the application
Dropped(u, upd) ==
  /\ Route(u, upd) = NoRoute
  /\ last' = Event("unhandled", u, "none", <<>>)
  /\ UNCHANGED <<users, packs, pack_items, conv, pending_create, pending_remove,
                 pending_delete, pending_acr, user_data, remote, dup, invoices, settings, inflight, open_prompts>>

\* a check that lets every user pass
AnyoneIsOwner(u) == TRUE

\* update.effective_user.id != OWNER_ID guards the owner-only handlers
IsOwner(u) == u = OWNER_ID

\* ------------------------------------------------------------ quota policy

\* create_cmd: a free user may not start a second pack of a type
\* the free tier allowed a second pack of a kind
FreeQuotaOfTwo(is_paid, user_packs) == ~is_paid /\ Cardinality(user_packs) > 1

\* create_cmd: a free user with a pack of the kind is turned away
FreeQuotaBlocks(is_paid, user_packs) == ~is_paid /\ user_packs # {}

\* the length ranges with their upper ends left out
NameLenBelowMax(is_paid, name) ==
  IF is_paid
  THEN PAID_PACK_NAME_MIN_LEN <= Len(name) /\ Len(name) < PAID_PACK_NAME_MAX_LEN
  ELSE FREE_PACK_NAME_MIN_LEN <= Len(name) /\ Len(name) < FREE_PACK_NAME_MAX_LEN

\* create_receive_name: the length range of the tier
NameLenOk(is_paid, name) ==
  IF is_paid
  THEN PAID_PACK_NAME_MIN_LEN <= Len(name) /\ Len(name) <= PAID_PACK_NAME_MAX_LEN
  ELSE FREE_PACK_NAME_MIN_LEN <= Len(name) /\ Len(name) <= FREE_PACK_NAME_MAX_LEN

\* create_receive_name: the slug of the tier
BaseSlug(is_paid, name) ==
  IF is_paid THEN normalize_pack_name(name)
  ELSE normalize_pack_name(name \o <<"_", "b", "y", "_">> \o BotUsername)

\* addto_callback: the item cap of a pack row
ItemLimit(pack) ==
  IF pack.is_paid_pack THEN PAID_MAX_ITEMS
  ELSE IF pack.type = "emoji" THEN FREE_MAX_EMOJIS ELSE FREE_MAX_STICKERS

\* the cap check with the comparison off by one
AtLimitOffByOne(current, limit) == current > limit

AtLimit(current, limit) == current >= limit

\* --------------------------------------------------------- create flow

\* /create <arg>
CreateCmd(u, arg) ==
  LET r == Route(u, CmdUpd("create"))
      us == get_or_create_user(users, u)
      user_packs == find_user_packs(packs, u, arg)
      enter == arg \in PackTypes /\ ~FreeQuotaBlocks(us[u].is_paid, user_packs)
      reply == IF arg \notin PackTypes THEN "usage"
               ELSE IF ~enter THEN "free_limit" ELSE "send_name"
  IN  /\ r.cb = "create_cmd"
      /\ users' = us
      /\ pending_create' =
           IF enter
           THEN [pending_create EXCEPT ![u] =
                   [NoCreate EXCEPT !.present = TRUE, !.type = arg,
                                    !.is_paid = us[u].is_paid]]
           ELSE pending_create
      /\ conv' = ConvAfter(u, r.via, IF enter THEN CREATE_WAIT_NAME ELSE END)
      /\ last' = Event("create_cmd", u, reply, <<>>)
      /\ UNCHANGED <<packs, pack_items, pending_remove, pending_delete,
                     pending_acr, user_data, remote, dup, invoices, settings, inflight, open_prompts>>

\* a text message in CREATE_WAIT_NAME
CreateReceiveName(u, text) ==
  LET r == Route(u, MsgUpd(TextMsg(text)))
      meta == pending_create[u]
      name == Strip(text)
      ok == NameLenOk(meta.is_paid, name)
      \* the free branch asks get_me() for the bot's username
      calls == IF ok /\ ~meta.is_paid
               THEN <<RemoteCall("get_me", NoSlug, NoFile, TRUE)>> ELSE <<>>
  IN  /\ r.cb = "create_receive_name"
      /\ IF ~meta.present
         THEN /\ conv' = ConvAfter(u, r.via, END)
              /\ last' = Event("create_receive_name", u, "none", <<>>)
              /\ UNCHANGED pending_create
         ELSE IF ~ok
         THEN /\ conv' = ConvAfter(u, r.via, CREATE_WAIT_NAME)
              /\ last' = Event("create_receive_name", u, "name_length_invalid", <<>>)
              /\ UNCHANGED pending_create
         ELSE /\ pending_create' =
                   [pending_create EXCEPT ![u] =
                      [meta EXCEPT !.named = TRUE, !.title = name,
                                   !.slug = BaseSlug(meta.is_paid, name)]]
              /\ conv' = ConvAfter(u, r.via, CREATE_WAIT_FIRST_ITEM)
              /\ last' = Event("create_receive_name", u, "send_first_item", calls)
      /\ UNCHANGED <<users, packs, pack_items, pending_remove, pending_delete,
                     pending_acr, user_data, remote, dup, invoices, settings, inflight, open_prompts>>

\* a conversion that takes every sticker, whatever the pack type
FirstItemOfAnyKind(pack_type, m) ==
  IF m.kind \in {"sticker", "cemoji"} THEN m.file
  ELSE IF m.kind = "text" /\ pack_type = "emoji" THEN PNG
  ELSE IF m.kind = "photo" /\ pack_type = "sticker" THEN m.file
  ELSE NoFile

\* create_receive_first_item: the item built from the message, NoFile when
\* the message does not fit the pack type
FirstItemOf(pack_type, m) ==
  IF m.kind \in {"sticker", "cemoji"}
  THEN IF pack_type = "emoji" /\ m.kind = "sticker" THEN NoFile
       ELSE IF pack_type = "sticker" /\ m.kind = "cemoji" THEN NoFile
       ELSE m.file
  ELSE IF m.kind = "text" /\ pack_type = "emoji" THEN PNG
  ELSE IF m.kind = "photo" /\ pack_type = "sticker" THEN m.file
  ELSE NoFile

\* create_receive_first_item: the file_id stored with the first item
FirstItemFileId(m) ==
  IF m.kind \in {"sticker", "cemoji", "photo"} THEN m.file ELSE GENERATED

\* the pack row is not written when the create raised
PackStoredDespiteFailure(created, dbPackOk) == dbPackOk

\* create_receive_first_item: "Store DB" is reached only when create_pack did
\* not raise, and it writes the row when insert_pack does not raise
PackStored(created, dbPackOk) == created /\ dbPackOk

\* a message in CREATE_WAIT_FIRST_ITEM; remoteOk: the platform accepts the
\* create; dbPackOk, dbItemOk: the two ledger inserts succeed
CreateReceiveFirstItem(u, m, remoteOk, dbPackOk, dbItemOk) ==
  LET r == Route(u, MsgUpd(m))
      meta == pending_create[u]
      item == FirstItemOf(meta.type, m)
      slug == meta.slug
      created == remoteOk /\ CanCreateRemote(remote, slug)
      stored == PackStored(created, dbPackOk)
      call == RemoteCall("create", slug, item, created)
      pack_id == Len(packs) + 1
  IN  /\ r.cb = "create_receive_first_item"
      /\ IF ~meta.present
         THEN /\ conv' = ConvAfter(u, r.via, END)
              /\ last' = Event("create_receive_first_item", u, "none", <<>>)
              /\ UNCHANGED <<pending_create, packs, pack_items, remote>>
         ELSE IF item = NoFile
         THEN /\ conv' = ConvAfter(u, r.via, CREATE_WAIT_FIRST_ITEM)
              /\ last' = Event("create_receive_first_item", u, "wrong_item", <<>>)
              /\ UNCHANGED <<pending_create, packs, pack_items, remote>>
         ELSE /\ stored => Len(packs) < MaxPacks
              /\ remote' = IF created THEN RemoteCreate(remote, slug, item)
                           ELSE remote
              /\ packs' = IF stored
                          THEN insert_pack(packs, PackRow(u, slug, meta.title,
                                                          meta.type, meta.is_paid))
                          ELSE packs
              /\ pack_items' =
                   IF stored /\ dbItemOk
                   THEN insert_pack_item(pack_items,
                          ItemRow(pack_id, FirstItemFileId(m), meta.type))
                   ELSE pack_items
              \* the entry is popped on the last line only
              /\ pending_create' = IF created /\ stored
                                   THEN [pending_create EXCEPT ![u] = NoCreate]
                                   ELSE pending_create
              \* insert_pack raising ends the handler without a return value
              /\ conv' = IF created /\ ~dbPackOk THEN conv
                         ELSE ConvAfter(u, r.via, END)
              /\ last' = Event("create_receive_first_item", u,
                               IF ~created THEN "create_failed"
                               ELSE IF ~dbPackOk THEN "exception"
                               ELSE "pack_created", <<call>>)
      /\ UNCHANGED <<users, pending_remove, pending_delete, pending_acr,
                     user_data, dup, invoices, settings, inflight, open_prompts>>

\* a cancel that drops the create entry alone
CancelCreateOnly(u) ==
  LET r == Route(u, CmdUpd("cancel"))
  IN  /\ r.cb = "cancel_all"
      /\ pending_create' = [pending_create EXCEPT ![u] = NoCreate]
      /\ conv' = ConvAfter(u, r.via, END)
      /\ last' = Event("cancel_all", u, "canceled", <<>>)
      /\ UNCHANGED <<users, packs, pack_items, pending_remove, pending_delete,
                     pending_acr, user_data, remote, dup, invoices, settings, inflight, open_prompts>>

\* /cancel, reached through the first conversation the user is in
CancelAll(u) ==
  LET r == Route(u, CmdUpd("cancel"))
  IN  /\ r.cb = "cancel_all"
      /\ pending_create' = [pending_create EXCEPT ![u] = NoCreate]
      /\ pending_remove' = [pending_remove EXCEPT ![u] = NoRemove]
      /\ pending_delete' = [pending_delete EXCEPT ![u] = NoDelete]
      /\ pending_acr' = [pending_acr EXCEPT ![u] = NoAcr]
      /\ conv' = ConvAfter(u, r.via, END)
      /\ last' = Event("cancel_all", u, "canceled", <<>>)
      /\ UNCHANGED <<users, packs, pack_items, user_data, remote, dup, invoices, settings, inflight, open_prompts>>

\* ------------------------------------------------------------- add-to

\* incoming_item: the pack type an item message is offered for
ItemPackType(m) ==
  IF m.kind = "cemoji" THEN "emoji"
  ELSE IF m.kind = "sticker" THEN "sticker"
  ELSE IF m.kind = "text" THEN "emoji"
  ELSE "sticker"

\* an item message outside the conversations
IncomingItem(u, m) ==
  LET r == Route(u, MsgUpd(m))
      offered == find_user_packs(packs, u, ItemPackType(m))
  IN  /\ r.cb = "incoming_item"
      /\ user_data' = IF offered = {} THEN user_data
                      ELSE [user_data EXCEPT ![u] = m]
      /\ open_prompts' = IF offered = {} THEN open_prompts
                         ELSE [open_prompts EXCEPT ![u] = @ \cup {m}]
      /\ last' = Event("incoming_item", u,
                       IF offered = {} THEN "no_packs" ELSE "choose_pack", <<>>)
      /\ UNCHANGED <<users, packs, pack_items, conv, pending_create,
                     pending_remove, pending_delete, pending_acr, remote, dup,
                     invoices, settings, inflight>>

\* the text of the bot's own prompt, which addto_callback reads when the
\* original message cannot be forwarded
PromptText == <<"C", "h", "o", "o", "s", "e">>

\* addto_callback: the InputSticker built from the original message, NoFile
\* when none is built
AddtoItemOf(pack_type, orig) ==
  IF orig.kind \in {"sticker", "cemoji"} THEN orig.file
  ELSE IF orig.kind = "text" /\ pack_type = "emoji" THEN PNG
  ELSE IF orig.kind = "photo" /\ pack_type = "sticker" THEN orig.file
  ELSE NoFile

\* addto_callback: getattr(input_sticker.sticker, 'file_id', None) or "FILE";
\* input_sticker.sticker is a file id string or uploaded bytes, and neither
\* has an attribute file_id
AddtoFileId(item) == FILE

\* the item row is written whatever the platform answered
ItemRowWrittenAnyway(appended, dbOk) == dbOk

\* addto_callback: insert_pack_item follows add_item_to_pack in one try
ItemRowWritten(appended, dbOk) == appended /\ dbOk

\* a read of the stash that leaves it in place
PeekPendingAdd(stash) == stash

\* addto_callback: user_data.pop("pending_add_item_msg_id", None) empties the
\* stash
PopPendingAdd(stash) == NoMsg

\* a press of the button addto|<data>; data 0 is addto|cancel.  remoteOk: the
\* platform accepts the append; dbOk: the ledger insert succeeds; fwdOk: the
\* original message can be forwarded
AddtoCallback(u, data, fwdOk, remoteOk, dbOk) ==
  LET r == Route(u, CbUpd("addto"))
      found == data \in 1..Len(packs)
      pack == packs[data]
      limit == ItemLimit(pack)
      current == count_pack_items(pack_items, data)
      stash == user_data[u]
      orig == IF fwdOk THEN stash ELSE TextMsg(PromptText)
      item == AddtoItemOf(pack.type, orig)
      appended == remoteOk /\ CanAppendRemote(remote, pack.name)
      call == RemoteCall("append", pack.name, item, appended)
      Reply(x, calls) == last' = Event("addto_callback", u, x, calls)
  IN  /\ r.cb = "addto_callback"
      /\ IF data = 0
         THEN Reply("canceled", <<>>)
              /\ UNCHANGED <<user_data, remote, pack_items>>
         ELSE IF ~found
         THEN Reply("pack_not_found", <<>>)
              /\ UNCHANGED <<user_data, remote, pack_items>>
         ELSE IF AtLimit(current, limit)
         THEN Reply("limit", <<>>)
              /\ UNCHANGED <<user_data, remote, pack_items>>
         ELSE IF stash = NoMsg
         THEN Reply("item_missing", <<>>)
              /\ UNCHANGED <<user_data, remote, pack_items>>
         ELSE /\ user_data' = [user_data EXCEPT ![u] = PopPendingAdd(stash)]
              /\ IF item = NoFile
                 THEN Reply("unsupported", <<>>)
                      /\ UNCHANGED <<remote, pack_items>>
                 ELSE /\ appended => Len(remote[pack.name]) < MaxRemoteLen
                      /\ remote' = IF appended
                                   THEN RemoteAppend(remote, pack.name, item)
                                   ELSE remote
                      /\ pack_items' =
                           IF ItemRowWritten(appended, dbOk)
                           THEN insert_pack_item(pack_items,
                                  ItemRow(data, AddtoFileId(item), pack.type))
                           ELSE pack_items
                      /\ Reply(IF appended /\ dbOk THEN "added" ELSE "failed",
                               <<call>>)
      \* every branch edits the pressed prompt, which loses its buttons
      /\ open_prompts' = [open_prompts EXCEPT ![u] = {}]
      /\ UNCHANGED <<users, packs, conv, pending_create, pending_remove,
                     pending_delete, pending_acr, dup, invoices, settings, inflight>>

\* an application that takes the next update while a handler is suspended
ConcurrentUpdatesOn == TRUE

\* ApplicationBuilder().token(...).build(): concurrent_updates is not set, so
\* an update is processed to its end before the next one is taken
ConcurrentUpdates == FALSE

\* the application hands the next update to its handlers
CanDispatch == ConcurrentUpdates \/ inflight = <<>>

\* addto_callback from the press to its first await behind the quota check:
\* the lookups, the check against the live count and the pop of the stash.
\* The presses that end before that point are whole steps of AddtoCallback.
AddtoBegin(u, data) ==
  LET r == Route(u, CbUpd("addto"))
      pack == packs[data]
      stash == user_data[u]
  IN  /\ CanDispatch
      /\ Len(inflight) < MaxInflight
      /\ r.cb = "addto_callback"
      /\ data \in 1..Len(packs)
      /\ ~AtLimit(count_pack_items(pack_items, data), ItemLimit(pack))
      /\ stash # NoMsg
      /\ user_data' = [user_data EXCEPT ![u] = PopPendingAdd(stash)]
      /\ inflight' = Append(inflight, [u |-> u, pack_id |-> data, msg |-> stash])
      /\ open_prompts' = [open_prompts EXCEPT ![u] = {}]
      /\ UNCHANGED <<users, packs, pack_items, conv, pending_create,
                     pending_remove, pending_delete, pending_acr, remote, dup,
                     invoices, settings, last>>

\* the rest of the press that is i-th in line: the forward, the append, the
\* item row and the answer
AddtoFinish(i, fwdOk, remoteOk, dbOk) ==
  LET op == inflight[i]
      pack == packs[op.pack_id]
      orig == IF fwdOk THEN op.msg ELSE TextMsg(PromptText)
      item == AddtoItemOf(pack.type, orig)
      appended == remoteOk /\ CanAppendRemote(remote, pack.name)
      call == RemoteCall("append", pack.name, item, appended)
  IN  /\ i \in DOMAIN inflight
      /\ inflight' = SubSeq(inflight, 1, i - 1) \o SubSeq(inflight, i + 1, Len(inflight))
      /\ IF item = NoFile
         THEN /\ last' = Event("addto_callback", op.u, "unsupported", <<>>)
              /\ UNCHANGED <<remote, pack_items>>
         ELSE /\ appended => Len(remote[pack.name]) < MaxRemoteLen
              /\ remote' = IF appended THEN RemoteAppend(remote, pack.name, item)
                           ELSE remote
              /\ pack_items' =
                   IF ItemRowWritten(appended, dbOk)
                   THEN insert_pack_item(pack_items,
                          ItemRow(op.pack_id, AddtoFileId(item), pack.type))
                   ELSE pack_items
              /\ last' = Event("addto_callback", op.u,
                               IF appended /\ dbOk THEN "added" ELSE "failed",
                               <<call>>)
      /\ UNCHANGED <<users, packs, conv, pending_create, pending_remove,
                     pending_delete, pending_acr, user_data, dup, invoices,
                     settings, open_prompts>>

\* ------------------------------------------------------- adaptive flow

FontIdx == {0}
BgModes == {"none", "translucent", "background_only"}

\* /acr
Acr(u) ==
  LET r == Route(u, CmdUpd("acr"))
      owner == IsOwner(u)
  IN  /\ r.cb = "acr"
      /\ pending_acr' = IF owner
                        THEN [pending_acr EXCEPT ![u] = [NoAcr EXCEPT !.present = TRUE]]
                        ELSE pending_acr
      /\ conv' = ConvAfter(u, r.via, IF owner THEN ACR_WAIT_INPUT ELSE END)
      /\ last' = Event("acr", u, IF owner THEN "send_input" ELSE "owner_only", <<>>)
      /\ UNCHANGED <<users, packs, pack_items, pending_create, pending_remove,
                     pending_delete, user_data, remote, dup, invoices, settings, inflight, open_prompts>>

\* a fork that sends a photo through font selection as well
AcrModePhotoAsText(m) ==
  IF m.kind \in {"text", "photo"} THEN "text"
  ELSE IF m.kind = "cemoji" THEN "emoji"
  ELSE "none"

\* acr_receive: the input mode of a message, "none" for a plain sticker
AcrModeOf(m) ==
  IF m.kind = "text" THEN "text"
  ELSE IF m.kind = "photo" THEN "photo"
  ELSE IF m.kind = "cemoji" THEN "emoji"
  ELSE "none"

\* a message in ACR_WAIT_INPUT; the dictionary entry is updated in place
\* when there is one
AcrReceive(u, m) ==
  LET r == Route(u, MsgUpd(m))
      mode == AcrModeOf(m)
      state == pending_acr[u]
      next == IF mode = "text" THEN ACR_WAIT_FONT
              ELSE IF mode = "none" THEN ACR_WAIT_INPUT ELSE ACR_WAIT_BG
  IN  /\ r.cb = "acr_receive"
      /\ pending_acr' =
           IF state.present /\ mode # "none"
           THEN [pending_acr EXCEPT ![u] =
                   [state EXCEPT !.mode = mode,
                                 !.text = IF mode = "text" THEN m.text ELSE @,
                                 !.file = IF mode = "text" THEN @ ELSE m.file]]
           ELSE pending_acr
      /\ conv' = ConvAfter(u, r.via, next)
      /\ last' = Event("acr_receive", u,
                       IF mode = "text" THEN "choose_font"
                       ELSE IF mode = "none" THEN "send_text_photo_emoji"
                       ELSE "choose_background", <<>>)
      /\ UNCHANGED <<users, packs, pack_items, pending_create, pending_remove,
                     pending_delete, user_data, remote, dup, invoices, settings, inflight, open_prompts>>

\* "not state": no entry, or an entry that is still the empty dictionary
AcrStateEmpty(state) == ~state.present \/ state.mode = "none"

\* a press of acr_font|<idx> in ACR_WAIT_FONT
AcrFontChoice(u, idx) ==
  LET r == Route(u, CbUpd("acr_font"))
      state == pending_acr[u]
      expired == AcrStateEmpty(state) \/ state.mode # "text"
  IN  /\ r.cb = "acr_font_choice"
      /\ pending_acr' = IF expired THEN pending_acr
                        ELSE [pending_acr EXCEPT ![u].font_idx = idx]
      /\ conv' = ConvAfter(u, r.via, IF expired THEN END ELSE ACR_WAIT_BG)
      /\ last' = Event("acr_font_choice", u,
                       IF expired THEN "state_expired" ELSE "choose_background",
                       <<>>)
      /\ UNCHANGED <<users, packs, pack_items, pending_create, pending_remove,
                     pending_delete, user_data, remote, dup, invoices, settings, inflight, open_prompts>>

\* acr_bg_choice: the slug of a user's adaptive pack
AdaptiveSlug(u) ==
  normalize_pack_name(<<"a", "d", "a", "p", "t", "i", "v", "e", "_">> \o Str(u)
                        \o <<"_", "b", "y", "_">> \o BotUsername)

\* acr_bg_choice: the item of the collected input
AcrItemOf(state) == IF state.mode = "text" THEN PNG ELSE state.file

\* a create is issued whatever the adaptive field holds
AlwaysAdaptiveCreate(slug) == TRUE

\* acr_bg_choice: a remote create is issued only without an adaptive pack
NeedsAdaptiveCreate(slug) == slug = NoSlug

\* a press of acr_bg|<mode> in ACR_WAIT_BG
AcrBgChoice(u, mode, remoteOk) ==
  LET r == Route(u, CbUpd("acr_bg"))
      state == pending_acr[u]
      item == AcrItemOf(state)
      us == get_or_create_user(users, u)
      have == us[u].adaptive_pack_name
      slug == IF NeedsAdaptiveCreate(have) THEN AdaptiveSlug(u) ELSE have
      created == remoteOk /\ CanCreateRemote(remote, slug)
      appended == remoteOk /\ CanAppendRemote(remote, slug)
      withBg == [pending_acr EXCEPT ![u].bg = mode]
      Done(x, calls) == /\ last' = Event("acr_bg_choice", u, x, calls)
                        /\ conv' = ConvAfter(u, r.via, END)
  IN  /\ r.cb = "acr_bg_choice"
      /\ IF AcrStateEmpty(state)
         THEN /\ Done("state_expired", <<>>)
              /\ UNCHANGED <<users, pending_acr, remote>>
         ELSE IF NeedsAdaptiveCreate(have)
         THEN LET call == RemoteCall("create", slug, item, created)
                  gm == RemoteCall("get_me", NoSlug, NoFile, TRUE)
              IN  IF ~created
                  THEN /\ Done("create_failed", <<gm, call>>)
                       /\ users' = us
                       /\ pending_acr' = withBg
                       /\ UNCHANGED remote
                  ELSE /\ Done("added", <<gm, call>>)
                       /\ remote' = RemoteCreate(remote, slug, item)
                       /\ users' = set_user_adaptive(us, u, slug)
                       /\ pending_acr' = [pending_acr EXCEPT ![u] = NoAcr]
         ELSE LET call == RemoteCall("append", slug, item, appended)
              IN  IF ~appended
                  THEN /\ Done("add_failed", <<call>>)
                       /\ users' = us
                       /\ pending_acr' = withBg
                       /\ UNCHANGED remote
                  ELSE /\ Len(remote[slug]) < MaxRemoteLen
                       /\ Done("added", <<call>>)
                       /\ remote' = RemoteAppend(remote, slug, item)
                       /\ users' = us
                       /\ pending_acr' = [pending_acr EXCEPT ![u] = NoAcr]
      /\ UNCHANGED <<packs, pack_items, pending_create, pending_remove,
                     pending_delete, user_data, dup, invoices, settings, inflight, open_prompts>>

\* ------------------------------------------------- remove and delete flows

\* /rem: without packs the callback returns no state
Rem(u) ==
  LET r == Route(u, CmdUpd("rem"))
      mine == find_user_packs(packs, u, "any")
  IN  /\ r.cb = "rem"
      /\ conv' = ConvAfter(u, r.via,
                           IF mine = {} THEN "None" ELSE REM_WAIT_PACK_SELECT)
      /\ last' = Event("rem", u, IF mine = {} THEN "no_packs" ELSE "pick_pack", <<>>)
      /\ UNCHANGED <<users, packs, pack_items, pending_create, pending_remove,
                     pending_delete, pending_acr, user_data, remote, dup, invoices, settings, inflight, open_prompts>>

\* a press of rempick|<pid> in REM_WAIT_PACK_SELECT
RemPackPick(u, pid) ==
  LET r == Route(u, CbUpd("rempick"))
  IN  /\ r.cb = "rem_pack_pick"
      /\ pending_remove' = [pending_remove EXCEPT ![u] =
                              [present |-> TRUE, pack_id |-> pid]]
      /\ conv' = ConvAfter(u, r.via, REM_WAIT_ITEM)
      /\ last' = Event("rem_pack_pick", u, "send_item", <<>>)
      /\ UNCHANGED <<users, packs, pack_items, pending_create, pending_delete,
                     pending_acr, user_data, remote, dup, invoices, settings, inflight, open_prompts>>

\* /delete <arg>
DeleteCmd(u, arg) ==
  LET r == Route(u, CmdUpd("delete"))
      mine == find_user_packs(packs, u, arg)
      enter == arg \in PackTypes /\ mine # {}
  IN  /\ r.cb = "delete_cmd"
      /\ pending_delete' =
           IF enter
           THEN [pending_delete EXCEPT ![u] = [NoDelete EXCEPT !.present = TRUE,
                                                               !.type = arg]]
           ELSE pending_delete
      /\ conv' = ConvAfter(u, r.via, IF enter THEN DELETE_WAIT_PACK_SELECT ELSE END)
      /\ last' = Event("delete_cmd", u,
                       IF arg \notin PackTypes THEN "usage"
                       ELSE IF ~enter THEN "no_packs" ELSE "pick_pack", <<>>)
      /\ UNCHANGED <<users, packs, pack_items, pending_create, pending_remove,
                     pending_acr, user_data, remote, dup, invoices, settings, inflight, open_prompts>>

\* a press of delpick|<pid> in DELETE_WAIT_PACK_SELECT: the entry is replaced
DelPackPick(u, pid) ==
  LET r == Route(u, CbUpd("delpick"))
  IN  /\ r.cb = "del_pack_pick"
      /\ pending_delete' = [pending_delete EXCEPT ![u] =
                              [NoDelete EXCEPT !.present = TRUE, !.pack_id = pid]]
      /\ conv' = ConvAfter(u, r.via, DELETE_WAIT_PACK_SELECT)
      /\ last' = Event("del_pack_pick", u, "send_item", <<>>)
      /\ UNCHANGED <<users, packs, pack_items, pending_create, pending_remove,
                     pending_acr, user_data, remote, dup, invoices, settings, inflight, open_prompts>>

\* delete_sticker_from_set removes the sticker from the set that holds it
RECURSIVE RemoveFirst(_, _)
RemoveFirst(seq, x) ==
  IF seq = <<>> THEN <<>>
  ELSE IF Head(seq) = x THEN Tail(seq)
  ELSE <<Head(seq)>> \o RemoveFirst(Tail(seq), x)

HoldersOf(rem, f) == {sl \in DOMAIN rem : \E i \in 1..Len(rem[sl]) : rem[sl][i] = f}

\* the pack id taken from the flow the user has open, 0 without one
ConfirmPackOfFlow(u, pid) ==
  IF pending_remove[u].present THEN pending_remove[u].pack_id
  ELSE IF pending_delete[u].present THEN pending_delete[u].pack_id
  ELSE 0

\* rem_confirm: pack_id = int(data[2]), the pack id the token carries
ConfirmPack(u, pid) == pid

\* a press of remconf|<pid>|<f> (pid 0: remconf|cancel); the ledger row is
\* deleted after the remote removal, inside the same try
RemConfirm(u, pid, f, remoteOk) ==
  LET r == Route(u, CbUpd("remconf"))
      holders == HoldersOf(remote, f)
      removed == remoteOk /\ holders # {}
      call == RemoteCall("remove", NoSlug, f, removed)
  IN  /\ r.cb = "rem_confirm"
      /\ IF pid = 0
         THEN /\ last' = Event("rem_confirm", u, "canceled", <<>>)
              /\ UNCHANGED <<remote, pack_items>>
         ELSE IF ~removed
         THEN /\ last' = Event("rem_confirm", u, "failed", <<call>>)
              /\ UNCHANGED <<remote, pack_items>>
         ELSE /\ \E sl \in holders :
                   remote' = [remote EXCEPT ![sl] = RemoveFirst(@, f)]
              /\ pack_items' = remove_pack_item_if_exists(pack_items,
                                                          ConfirmPack(u, pid), f)
              /\ last' = Event("rem_confirm", u, "removed", <<call>>)
      /\ conv' = ConvAfter(u, r.via, "None")
      /\ UNCHANGED <<users, packs, pending_create, pending_remove,
                     pending_delete, pending_acr, user_data, dup, invoices, settings, inflight, open_prompts>>

\* ------------------------------------------------------------ payments

\* a payload is the text kind:uid:time[:extra], built with an f-string where
\* the invoice is sent and cut apart again with split(":") at the settlement
BPACK == <<"b", "p", "a", "c", "k">>
APACK == <<"a", "p", "a", "c", "k">>
DUPLICATE == <<"d", "u", "p", "l", "i", "c", "a", "t", "e">>
Colon == <<":">>

\* int(time.time()) of the moment the invoice is built
ClockText == <<"0">>

\* f"{kind}:{uid}:{int(time.time())}"
PayloadHead(kind, uid) == kind \o Colon \o Str(uid) \o Colon \o ClockText

\* f"{kind}:{uid}:{int(time.time())}:{arg}"
PayloadText(kind, uid, arg) == PayloadHead(kind, uid) \o Colon \o arg

\* str.startswith
StartsWith(s, p) == Len(s) >= Len(p) /\ SubSeq(s, 1, Len(p)) = p

\* str.split(sep): the pieces between the separators, one piece if there is none
RECURSIVE Split(_, _)
Split(s, sep) ==
  IF \A i \in DOMAIN s : s[i] # sep THEN <<s>>
  ELSE LET i == CHOOSE k \in DOMAIN s : s[k] = sep /\ \A j \in 1..(k - 1) : s[j] # sep
       IN  <<SubSeq(s, 1, i - 1)>> \o Split(SubSeq(s, i + 1, Len(s)), sep)

IsDigitChar(c) == \E n \in 0..9 : Digit(n) = c

\* int(text): -1 stands for the ValueError of a text that is no number
RECURSIVE ParseInt(_)
ParseInt(chars) ==
  IF chars = <<>> \/ \E i \in DOMAIN chars : ~IsDigitChar(chars[i]) THEN -1
  ELSE LET d == CHOOSE n \in 0..9 : Digit(n) = chars[Len(chars)]
       IN  IF Len(chars) = 1 THEN d
           ELSE 10 * ParseInt(SubSeq(chars, 1, Len(chars) - 1)) + d

RECURSIVE AllSlugChars(_)
AllSlugChars(chars) ==
  chars = <<>> \/ (IsSlugChar(Head(chars)) /\ AllSlugChars(Tail(chars)))

\* t.me/addstickers/ and t.me/addemoji/
LinkHeads ==
  {<<"t", ".", "m", "e", "/", "a", "d", "d", "s", "t", "i", "c", "k", "e", "r", "s", "/">>,
   <<"t", ".", "m", "e", "/", "a", "d", "d", "e", "m", "o", "j", "i", "/">>}

\* ([A-Za-z0-9_]+) from position i: the longest run of slug characters
RECURSIVE SlugRun(_, _)
SlugRun(s, i) ==
  IF i > Len(s) \/ ~IsSlugChar(s[i]) THEN <<>>
  ELSE <<s[i]>> \o SlugRun(s, i + 1)

\* the heads that match at position i with a slug behind them
HeadsAt(s, i) ==
  {h \in LinkHeads : /\ i + Len(h) - 1 <= Len(s)
                     /\ SubSeq(s, i, i + Len(h) - 1) = h
                     /\ SlugRun(s, i + Len(h)) # <<>>}

\* parse_pack_link: re.search for the leftmost link and its slug, else the
\* whole text if it is a bare slug, else None (NoSlug)
parse_pack_link(link) ==
  LET starts == {i \in DOMAIN link : HeadsAt(link, i) # {}}
  IN  IF starts # {}
      THEN LET i == CHOOSE k \in starts : \A j \in starts : k <= j
               h == CHOOSE x \in HeadsAt(link, i) : TRUE
           IN  SlugRun(link, i + Len(h))
      ELSE IF link # <<>> /\ AllSlugChars(link) THEN link
      ELSE NoSlug

KindChars(kind) ==
  IF kind = "emoji" THEN <<"e", "m", "o", "j", "i">>
  ELSE <<"s", "t", "i", "c", "k", "e", "r">>

PayloadKinds == {BPACK, APACK, DUPLICATE}

\* the check without the separator behind the prefix
MatchesPrefixOnly(payload) == \E k \in PayloadKinds : StartsWith(payload, k)

\* re.match(r"^(bpack|apack|duplicate):", q.invoice_payload or "")
MatchesPayload(payload) == \E k \in PayloadKinds : StartsWith(payload, k \o Colon)

\* the pre-checkout query of user u for an invoice with this payload
Precheckout(u, payload) ==
  LET r == Route(u, Upd("precheckout", ""))
      ok == MatchesPayload(payload)
  IN  /\ r.cb = "precheckout_handler"
      /\ last' = EventWith("precheckout_handler", u,
                           IF ok THEN "ok" ELSE "invalid_invoice", <<>>, payload)
      /\ UNCHANGED <<users, packs, pack_items, conv, pending_create,
                     pending_remove, pending_delete, pending_acr, user_data,
                     remote, dup, invoices, settings, inflight, open_prompts>>

\* /bpack <arg>: the user row is not created here
Bpack(u, arg) ==
  LET r == Route(u, CmdUpd("bpack"))
      ok == arg \in PackTypes
  IN  /\ r.cb = "bpack"
      /\ invoices' = IF ok
                     THEN invoices \cup {PayloadText(BPACK, u, KindChars(arg))}
                     ELSE invoices
      /\ last' = Event("bpack", u, IF ok THEN "invoice" ELSE "usage", <<>>)
      /\ UNCHANGED <<users, packs, pack_items, conv, pending_create,
                     pending_remove, pending_delete, pending_acr, user_data,
                     remote, dup, settings, inflight, open_prompts>>

\* /duplicate <link>: link is args[0]
DuplicateCmd(u, link) ==
  LET r == Route(u, CmdUpd("duplicate"))
  IN  /\ r.cb = "duplicate"
      /\ invoices' = invoices \cup {PayloadText(DUPLICATE, u, link)}
      /\ last' = Event("duplicate_cmd", u, "invoice", <<>>)
      /\ UNCHANGED <<users, packs, pack_items, conv, pending_create,
                     pending_remove, pending_delete, pending_acr, user_data,
                     remote, dup, settings, inflight, open_prompts>>

\* /admin <target>
AdminCmd(u, target) ==
  LET r == Route(u, CmdUpd("admin"))
      owner == IsOwner(u)
      us == get_or_create_user(users, target)
  IN  /\ r.cb = "admin"
      /\ users' = IF owner
                  THEN [us EXCEPT ![target].is_paid = TRUE,
                                  ![target].is_admin = TRUE,
                                  ![target].free_pack_uses = 20]
                  ELSE users
      /\ last' = Event("admin_cmd", u, IF owner THEN "promoted" ELSE "unauthorized",
                       <<>>)
      /\ UNCHANGED <<packs, pack_items, conv, pending_create, pending_remove,
                     pending_delete, pending_acr, user_data, remote, dup, invoices, settings, inflight, open_prompts>>

\* /broadcast: the owner's text goes to every user; nothing is stored
BroadcastCmd(u) ==
  LET r == Route(u, CmdUpd("broadcast"))
      owner == IsOwner(u)
  IN  /\ r.cb = "broadcast"
      /\ last' = Event("broadcast_cmd", u,
                       IF owner THEN "broadcast_sent" ELSE "unauthorized", <<>>)
      /\ UNCHANGED <<users, packs, pack_items, conv, pending_create,
                     pending_remove, pending_delete, pending_acr, user_data,
                     remote, dup, invoices, settings, inflight, open_prompts>>

\* /set <on|off>
SetCmd(u, arg) ==
  LET r == Route(u, CmdUpd("set"))
      owner == IsOwner(u)
      ok == arg \in {"on", "off"}
  IN  /\ r.cb = "set"
      /\ settings' = IF owner /\ ok THEN arg = "on" ELSE settings
      /\ last' = Event("set_cmd", u,
                       IF ~owner THEN "unauthorized"
                       ELSE IF ~ok THEN "usage" ELSE "set", <<>>)
      /\ UNCHANGED <<users, packs, pack_items, conv, pending_create,
                     pending_remove, pending_delete, pending_acr, user_data,
                     remote, dup, invoices, inflight, open_prompts>>

\* /start
Start(u) ==
  LET r == Route(u, CmdUpd("start"))
  IN  /\ r.cb = "start"
      /\ users' = get_or_create_user(users, u)
      /\ last' = Event("start", u, "welcome", <<>>)
      /\ UNCHANGED <<packs, pack_items, conv, pending_create, pending_remove,
                     pending_delete, pending_acr, user_data, remote, dup, invoices, settings, inflight, open_prompts>>

\* ------------------------------------------------------ export, import

\* /export: the user's rows are written to a file on the server
ExportCmd(u) ==
  LET r == Route(u, CmdUpd("export"))
  IN  /\ r.cb = "export"
      /\ last' = Event("export_cmd", u, "export_complete", <<>>)
      /\ UNCHANGED <<users, packs, pack_items, conv, pending_create,
                     pending_remove, pending_delete, pending_acr, user_data,
                     remote, dup, invoices, settings, inflight, open_prompts>>

\* message.document of an /import message: none, a file that is not JSON,
\* or a backup with its pack rows and item rows
NoDoc == [kind |-> "none", packs |-> <<>>, items |-> <<>>]
BadJson == [kind |-> "text", packs |-> <<>>, items |-> <<>>]
Backup(ps, its) == [kind |-> "json", packs |-> ps, items |-> its]

\* import_cmd: the loop over the pack rows; rows of other users are skipped,
\* INSERT OR IGNORE meets no unique column and inserts under a new pack id
RECURSIVE ImportPacks(_, _, _)
ImportPacks(ps, u, rows) ==
  IF rows = <<>> THEN ps
  ELSE ImportPacks(IF Head(rows).user_id = u THEN insert_pack(ps, Head(rows))
                   ELSE ps,
                   u, Tail(rows))

\* import_cmd: the loop over the item rows, inserted under the pack id the
\* file gives
RECURSIVE ImportItems(_, _)
ImportItems(items, rows) ==
  IF rows = <<>> THEN items
  ELSE ImportItems(insert_pack_item(items, Head(rows)), Tail(rows))

ImportCmd(u, doc) ==
  LET r == Route(u, CmdUpd("import"))
      reply == IF doc.kind = "none" THEN "attach_file"
               ELSE IF doc.kind = "text" THEN "invalid_json"
               ELSE "import_complete"
  IN  /\ r.cb = "import"
      /\ packs' = IF doc.kind = "json" THEN ImportPacks(packs, u, doc.packs)
                  ELSE packs
      /\ pack_items' = IF doc.kind = "json" THEN ImportItems(pack_items, doc.items)
                       ELSE pack_items
      /\ last' = Event("import_cmd", u, reply, <<>>)
      /\ UNCHANGED <<users, conv, pending_create, pending_remove,
                     pending_delete, pending_acr, user_data, remote, dup,
                     invoices, settings, inflight, open_prompts>>

\* ------------------------------------------------------- duplicate loop

YieldMark == RemoteCall("yield", NoSlug, NoFile, TRUE)

\* the pause taken one append early
ShouldYieldEarly(idx) == (idx + 1) % YieldEvery = 0

\* duplicate_pack: asyncio.sleep(0) after the append of index idx
ShouldYield(idx) == idx % YieldEvery = 0

\* duplicate_pack: the item appended at loop index idx (input_stickers[idx])
LoopItem(items, idx) == items[idx + 1]

\* duplicate_pack: the loop from index idx up to the next pause, the failing
\* append failAt, or the end of the list
RECURSIVE RunLoop(_, _, _, _, _)
RunLoop(slug, items, idx, failAt, log) ==
  IF idx >= Len(items) THEN [outcome |-> "done", idx |-> idx, log |-> log]
  ELSE IF idx = failAt
  THEN [outcome |-> "failed", idx |-> idx,
        log |-> Append(log, RemoteCall("append", slug, LoopItem(items, idx), FALSE))]
  ELSE LET log2 == Append(log, RemoteCall("append", slug, LoopItem(items, idx), TRUE))
       IN  IF ShouldYield(idx)
           THEN [outcome |-> "yield", idx |-> idx + 1, log |-> Append(log2, YieldMark)]
           ELSE RunLoop(slug, items, idx + 1, failAt, log2)

\* the items the successful appends of a log add, in order
RECURSIVE AppendedBy(_)
AppendedBy(log) ==
  IF log = <<>> THEN <<>>
  ELSE IF Head(log).op = "append" /\ Head(log).ok
       THEN <<Head(log).item>> \o AppendedBy(Tail(log))
       ELSE AppendedBy(Tail(log))

\* successful_payment_handler: the slug of the copy; n stands for the clock
DupSlug(uid, n) ==
  normalize_pack_name(<<"d", "u", "p", "_">> \o Str(uid) \o <<"_">> \o Str(n)
                        \o <<"_", "b", "y", "_">> \o BotUsername)

\* new_name, new_type = <str>: a string unpacks into two names only when it
\* has two characters
UnpacksAnyValue(value) == TRUE

UnpacksToPair(value) == Len(value) = 2

NoDup ==
  [active |-> FALSE, u |-> 0, target |-> NoSlug, slug |-> NoSlug, items |-> <<>>,
   idx |-> 0, log |-> <<>>, n |-> 0]

\* the end of duplicate_pack and of the handler: the unpacking of the result,
\* the ledger insert and the reply
DupFinish(d, run) ==
  LET ok == run.outcome = "done" /\ UnpacksToPair(d.slug)
      type == "sticker"
  IN  /\ dup' = [NoDup EXCEPT !.n = d.n, !.log = run.log, !.slug = d.slug,
                              !.u = d.u, !.target = d.target, !.items = d.items,
                              !.idx = run.idx]
      /\ packs' = IF ok
                  THEN insert_pack(packs,
                         PackRow(d.u, <<d.slug[1]>>, d.target, type, TRUE))
                  ELSE packs
      /\ last' = Event("successful_payment_handler", d.u,
                       IF ok THEN "duplicated" ELSE "duplication_failed", <<>>)

\* the loop runs on from d.idx; at a pause the handler stays suspended
DupRun(d, failAt) ==
  LET run == RunLoop(d.slug, d.items, d.idx, failAt, d.log)
      added == AppendedBy(SubSeq(run.log, Len(d.log) + 1, Len(run.log)))
  IN  /\ remote' = (IF d.slug \in DOMAIN remote
                    THEN [remote EXCEPT ![d.slug] = @ \o added]
                    ELSE remote @@ (d.slug :> <<d.items[1]>> \o added))
      /\ IF run.outcome = "yield"
         THEN /\ dup' = [d EXCEPT !.active = TRUE, !.idx = run.idx, !.log = run.log]
              /\ last' = Event("successful_payment_handler", d.u, "paused", <<>>)
              /\ UNCHANGED packs
         ELSE DupFinish(d, run)

FailPoints(d) == {-1} \cup {i \in d.idx..(Len(d.items) - 1) : i < d.idx + YieldEvery}


\* /apack
Apack(u) ==
  LET r == Route(u, CmdUpd("apack"))
      owner == IsOwner(u)
      us == get_or_create_user(users, u)
      have == us[u].adaptive_pack_name # NoSlug
  IN  /\ r.cb = "apack"
      /\ users' = IF owner THEN us ELSE users
      /\ invoices' = IF owner /\ ~have
                     THEN invoices \cup {PayloadHead(APACK, u)}
                     ELSE invoices
      /\ last' = Event("apack", u,
                       IF ~owner THEN "owner_only"
                       ELSE IF have THEN "already_exists" ELSE "invoice", <<>>)
      /\ UNCHANGED <<packs, pack_items, conv, pending_create, pending_remove,
                     pending_delete, pending_acr, user_data, remote, dup, settings, inflight, open_prompts>>

\* the confirmation of a paid invoice, sent by the user the invoice went to;
\* fetchOk, createOk: the platform answers the fetch and accepts the create
SuccessfulPayment(payload, fetchOk, createOk) ==
  LET parts == Split(payload, ":")
      kind == parts[1]
      u == ParseInt(parts[2])
      r == Route(u, Upd("payment", ""))
      link == IF Len(parts) > 3 THEN parts[4] ELSE <<>>
      target == IF link # <<>> THEN parse_pack_link(link) ELSE NoSlug
      new_slug == DupSlug(u, dup.n)
      fetched == fetchOk /\ target \in DOMAIN remote
      items == remote[target]
      created == createOk /\ CanCreateRemote(remote, new_slug)
      gm == RemoteCall("get_me", NoSlug, NoFile, TRUE)
      fetch == RemoteCall("fetch", target, NoFile, fetched)
      create == RemoteCall("create", new_slug, items[1], created)
      Failed(log) ==
        /\ dup' = [NoDup EXCEPT !.n = dup.n + 1, !.u = u, !.target = target,
                                !.slug = new_slug, !.log = log]
        /\ last' = Event("successful_payment_handler", u, "duplication_failed", <<>>)
        /\ UNCHANGED <<users, packs, remote>>
  IN  /\ r.cb = "successful_payment_handler"
      /\ payload \in invoices
      /\ ~dup.active
      /\ invoices' = invoices \ {payload}
      /\ IF kind = BPACK
         THEN /\ users' = set_user_is_paid(users, u)
              /\ last' = Event("successful_payment_handler", u, "paid_unlocked", <<>>)
              /\ UNCHANGED <<packs, remote, dup>>
         ELSE IF kind = APACK
         THEN /\ last' = Event("successful_payment_handler", u, "use_acr", <<>>)
              /\ UNCHANGED <<users, packs, remote, dup>>
         ELSE /\ dup.n < MaxDups
              /\ IF target = NoSlug
                 THEN /\ last' = Event("successful_payment_handler", u,
                                       "invalid_link", <<>>)
                      /\ UNCHANGED <<users, packs, remote, dup>>
                 ELSE IF ~fetched THEN Failed(<<gm, fetch>>)
                 ELSE IF items = <<>> THEN Failed(<<gm, fetch>>)
                 ELSE IF ~created THEN Failed(<<gm, fetch, create>>)
                 ELSE LET d == [active |-> FALSE, u |-> u, target |-> target,
                                slug |-> new_slug, items |-> items, idx |-> 1,
                                log |-> <<gm, fetch, create>>, n |-> dup.n + 1]
                      IN  /\ \E failAt \in FailPoints(d) : DupRun(d, failAt)
                          /\ UNCHANGED users
      /\ UNCHANGED <<pack_items, conv, pending_create, pending_remove,
                     pending_delete, pending_acr, user_data, settings, inflight, open_prompts>>

\* the suspended duplicate loop runs on after its pause
DupResume ==
  /\ dup.active
  /\ \E failAt \in FailPoints(dup) : DupRun(dup, failAt)
  /\ UNCHANGED <<users, pack_items, conv, pending_create, pending_remove,
                 pending_delete, pending_acr, user_data, invoices, settings, inflight, open_prompts>>

\* ------------------------------------------------------ specifications

SrcSlug == <<"s", "r", "c">>
SrcItems(n) == [i \in 1..n |-> <<"src", i>>]


InitWith(n) ==
  /\ users = [u \in Users |-> NoUserRow]
  /\ packs = <<>>
  /\ pack_items = EmptyBag
  /\ conv = [u \in Users |-> NoConv]
  /\ pending_create = [u \in Users |-> NoCreate]
  /\ pending_remove = [u \in Users |-> NoRemove]
  /\ pending_delete = [u \in Users |-> NoDelete]
  /\ pending_acr = [u \in Users |-> NoAcr]
  /\ user_data = [u \in Users |-> NoMsg]
  /\ remote = (SrcSlug :> SrcItems(n))
  /\ dup = NoDup
  /\ invoices = {}
  /\ settings = TRUE
  /\ inflight = <<>>
  /\ open_prompts = [u \in Users |-> {}]
  /\ last = Event("init", 0, "none", <<>>)

\* items of the source pack in the runs of all handlers
SrcShortLen == 2

Init == InitWith(SrcShortLen)

CmdArgs == {"emoji", "sticker", "other"}
SetArgs == {"on", "off", "other"}
PackIdInputs == 0..MaxPacks
\* the forms a pack link is typed in: the bare slug, the link without its
\* scheme, the full link, and a text that names no pack
LinkBare == SrcSlug
LinkNoScheme == <<"t", ".", "m", "e", "/", "a", "d", "d", "s", "t", "i", "c", "k", "e", "r", "s", "/">> \o SrcSlug
LinkFull == <<"h", "t", "t", "p", "s", ":", "/", "/">> \o LinkNoScheme
LinkBad == <<"s", "-", "c">>
Links == {LinkBare}
LinkInputs == {LinkBare, LinkNoScheme, LinkFull, LinkBad}

\* payloads no command of the bot builds: the empty one, prefixes without
\* their separator, and near misses of the three prefixes
ForgedPayloads ==
  {<<>>, Colon, BPACK, APACK, DUPLICATE,
   BPACK \o Colon, APACK \o Colon, DUPLICATE \o Colon,
   <<"x">> \o BPACK \o Colon, Colon \o BPACK \o Colon,
   <<"B", "p", "a", "c", "k", ":">>, BPACK \o <<"k", ":">>,
   <<"d", "u", "p", ":">>, BPACK \o <<";", "1">>,
   <<"p", "a", "c", "k", ":", "1">>}

\* the whole bot: every handler, every user, every input
\* the files sent with /import: none, no JSON, and backups that name a pack
\* of each of the two users and an item row for pack id 1
ImportSlug == <<"i", "m", "p">>
ImportedPack(u) == PackRow(u, ImportSlug, NameOk, "sticker", FALSE)
ImportedItem == ItemRow(1, <<"file", 1>>, "sticker")
ImportDocs ==
  {NoDoc, BadJson, Backup(<<>>, <<ImportedItem>>)}
    \cup {Backup(<<ImportedPack(u)>>, <<ImportedItem>>) : u \in Users}

Next ==
  \/ \E u \in Users, arg \in CmdArgs : CreateCmd(u, arg)
  \/ \E u \in Users, t \in Texts : CreateReceiveName(u, t)
  \/ \E u \in Users, m \in Msgs, a, b, c \in BOOLEAN :
       CreateReceiveFirstItem(u, m, a, b, c)
  \/ \E u \in Users : CancelAll(u)
  \/ \E u \in Users, m \in Msgs : IncomingItem(u, m)
  \/ \E u \in Users, d \in PackIdInputs, a, b, c \in BOOLEAN :
       AddtoCallback(u, d, a, b, c)
  \/ \E u \in Users : Acr(u)
  \/ \E u \in Users, m \in Msgs : AcrReceive(u, m)
  \/ \E u \in Users, i \in FontIdx : AcrFontChoice(u, i)
  \/ \E u \in Users, mode \in BgModes, a \in BOOLEAN : AcrBgChoice(u, mode, a)
  \/ \E u \in Users : Rem(u)
  \/ \E u \in Users, p \in 1..MaxPacks : RemPackPick(u, p)
  \/ \E u \in Users, arg \in CmdArgs : DeleteCmd(u, arg)
  \/ \E u \in Users, p \in 1..MaxPacks : DelPackPick(u, p)
  \/ \E u \in Users, p \in PackIdInputs, f \in FileIds \cup {FILE}, a \in BOOLEAN :
       RemConfirm(u, p, f, a)
  \/ \E u \in Users, arg \in CmdArgs : Bpack(u, arg)
  \/ \E u \in Users, l \in LinkInputs : DuplicateCmd(u, l)
  \/ \E u \in Users : Apack(u)
  \/ \E u, t \in Users : AdminCmd(u, t)
  \/ \E u \in Users : Start(u)
  \/ \E u \in Users : BroadcastCmd(u)
  \/ \E u \in Users, arg \in SetArgs : SetCmd(u, arg)
  \/ \E u \in Users, p \in invoices \cup ForgedPayloads : Precheckout(u, p)
  \/ \E p \in invoices, a, b \in BOOLEAN : SuccessfulPayment(p, a, b)
  \/ DupResume
  \/ \E u \in Users : ExportCmd(u)
  \/ \E u \in Users, doc \in ImportDocs :
       Len(packs) < MaxPacks /\ ImportCmd(u, doc)
  \/ \E u \in Users, c \in {"create", "acr", "rem", "delete"} : Dropped(u, CmdUpd(c))

Spec == Init /\ [][Next]_vars

\* Spec has too many states to enumerate.  The specifications below run the
\* same handlers for the actors and the inputs their claims are about.

\* a user who is not the owner
Guest == OWNER_ID + 1

\* the two sticker messages of file 1
StickerInputs == {StickerMsg(<<"file", 1>>), EmojiMsg(<<"file", 1>>)}

\* the create flow, add-to and removal of one user around a single pack; the
\* user is free at first and the owner may promote them; appends and the item
\* insert may fail
NextQuota ==
  \/ \E arg \in PackTypes : CreateCmd(Guest, arg)
  \/ CreateReceiveName(Guest, NameOk)
  \/ \E m \in StickerInputs, a \in BOOLEAN :
       packs = <<>> /\ CreateReceiveFirstItem(Guest, m, a, TRUE, TRUE)
  \/ CancelAll(Guest)
  \/ \E m \in StickerInputs : IncomingItem(Guest, m)
  \/ \E d \in 0..(Len(packs) + 1), a, c \in BOOLEAN :
       AddtoCallback(Guest, d, TRUE, a, c)
  \/ \E p \in 1..Len(packs), f \in FileIds, a \in BOOLEAN :
       RemConfirm(Guest, p, f, a)
  \/ AdminCmd(OWNER_ID, Guest)

SpecQuota == Init /\ [][NextQuota]_vars

\* ---------------------------------------------------------------- C1

ItemCapHolds ==
  \A p \in 1..Len(packs) : count_pack_items(pack_items, p) <= ItemLimit(packs[p])

\* an add-to press on a pack whose row count equals its cap is answered with
\* the limit message, calls the platform never and changes no row
AppendAtCapRejected ==
  last'.h = "addto_callback" =>
    \A d \in 1..Len(packs), a, b, c \in BOOLEAN :
      (/\ count_pack_items(pack_items, d) = ItemLimit(packs[d])
       /\ AddtoCallback(last'.u, d, a, b, c))
      => /\ last'.reply = "limit"
         /\ last'.calls = <<>>
         /\ remote' = remote
         /\ pack_items' = pack_items

\* C1: the item rows of a pack never exceed its cap (paid cap for a paid
\* pack, the free emoji or free sticker cap otherwise), and an append
\* attempted at the cap is rejected without a remote call and without a row
C1_QuotaCeiling == []ItemCapHolds /\ [][AppendAtCapRejected]_vars

\* a paid pack at its cap has just refused an append
C1_Witness ==
  /\ last.h = "addto_callback"
  /\ last.reply = "limit"
  /\ \E p \in 1..Len(packs) :
       /\ packs[p].is_paid_pack
       /\ count_pack_items(pack_items, p) = PAID_MAX_ITEMS

\* ---------------------------------------------------------------- C2

\* the owner runs the create flow, the adaptive flow and a duplication;
\* every remote call and every ledger write may fail
NextLedger ==
  \/ \E arg \in PackTypes : CreateCmd(OWNER_ID, arg)
  \/ CreateReceiveName(OWNER_ID, NameOk)
  \/ \E a, b, c \in BOOLEAN :
       CreateReceiveFirstItem(OWNER_ID, StickerMsg(<<"file", 1>>), a, b, c)
  \/ Acr(OWNER_ID)
  \/ AcrReceive(OWNER_ID, EmojiMsg(<<"file", 1>>))
  \/ \E a \in BOOLEAN : AcrBgChoice(OWNER_ID, "none", a)
  \/ \E l \in Links : DuplicateCmd(OWNER_ID, l)
  \/ \E p \in invoices, a, b \in BOOLEAN : SuccessfulPayment(p, a, b)

SpecLedger == Init /\ [][NextLedger]_vars

\* the slugs of the collections this program created on the platform
CreatedRemotely == DOMAIN remote \ {SrcSlug}

\* the slugs that have a packs row
LedgerSlugs == {packs[p].name : p \in 1..Len(packs)}

\* C2: (I1) a packs row for a slug exists if and only if a remote create of
\* that slug succeeded, after any run of create flows, adaptive submits and
\* duplicate settlements
C2_RowIffRemoteCreated == LedgerSlugs = CreatedRemotely

\* ---------------------------------------------------------------- C3

\* the event just handled issued a remote create that failed
CreateJustFailed(ev) ==
  /\ ev.h = "create_receive_first_item"
  /\ \E i \in DOMAIN ev.calls : ev.calls[i].op = "create" /\ ~ev.calls[i].ok

\* C3: a first-item step of the create flow whose remote create fails
\* inserts no pack row and no item row: the ledger is as it was before
C3_FailedCreateKeepsLedger ==
  [][CreateJustFailed(last') => UNCHANGED <<users, packs, pack_items>>]_vars

\* a first item was submitted and the platform refused the create
C3_Witness ==
  /\ CreateJustFailed(last)
  /\ last.reply = "create_failed"
  /\ conv[last.u].create = END

\* ---------------------------------------------------------------- C4

\* user u's create flow has just committed
JustCommitted ==
  last.h = "create_receive_first_item" /\ last.reply = "pack_created"

\* C4: once a create flow has committed, the same first-item message
\* delivered again is routed to incoming_item, outside the create flow, and
\* that handler issues no remote create and inserts no pack row
C4_ResendIsFreshEvent ==
  /\ [](JustCommitted /\ conv[last.u].acr = END =>
          \A m \in ItemMsgs : Route(last.u, MsgUpd(m)).cb = "incoming_item")
  /\ [][last'.h = "incoming_item" =>
          /\ last'.calls = <<>>
          /\ UNCHANGED <<packs, pack_items, remote>>]_vars

\* the first item of a committed pack was sent again and stashed as a fresh
\* item message
C4_Witness ==
  /\ last.h = "incoming_item"
  /\ conv[last.u].create = END
  /\ ~pending_create[last.u].present
  /\ \E p \in 1..Len(packs) :
       /\ packs[p].user_id = last.u
       /\ Len(remote[packs[p].name]) = 1
       /\ remote[packs[p].name][1] = user_data[last.u].file

\* ---------------------------------------------------------------- C5

\* the adaptive flow of the owner, over every kind of input message, with
\* remote failures; the other user is turned away
NextAdaptive ==
  \/ \E u \in Users : Acr(u)
  \/ \E m \in Msgs : AcrReceive(OWNER_ID, m)
  \/ \E i \in FontIdx : AcrFontChoice(OWNER_ID, i)
  \/ \E mode \in BgModes, a \in BOOLEAN : AcrBgChoice(OWNER_ID, mode, a)
  \/ CancelAll(OWNER_ID)

SpecAdaptive == Init /\ [][NextAdaptive]_vars

\* the gateway calls of an event (get_me is a call to the Bot API, not to a
\* collection)
GatewayCalls(ev) ==
  {ev.calls[i] : i \in {j \in DOMAIN ev.calls : ev.calls[j].op # "get_me"}}

\* the terminal step creates only with an empty adaptive field and otherwise
\* appends to the collection the field names
AdaptiveStepChoosesByField ==
  last'.h = "acr_bg_choice" =>
    \A call \in GatewayCalls(last') :
      LET have == users[last'.u].adaptive_pack_name
      IN  /\ call.op \in {"create", "append"}
          /\ call.op = "create" => have = NoSlug
          /\ call.op = "append" => have # NoSlug /\ call.slug = have
          /\ call.op = "create" /\ call.ok =>
               users'[last'.u].adaptive_pack_name = call.slug

\* a set adaptive field is never cleared or changed
AdaptiveFieldKept ==
  \A u \in Users :
    users[u].adaptive_pack_name # NoSlug =>
      users'[u].adaptive_pack_name = users[u].adaptive_pack_name

\* C5: a user gets at most one adaptive collection: the terminal step of the
\* adaptive flow creates remotely only while the user's adaptive field is
\* empty, a successful create fills the field for good, and with the field
\* filled the step appends to the collection it names
C5_SingleAdaptive == [][AdaptiveStepChoosesByField /\ AdaptiveFieldKept]_vars

\* a second adaptive submit has appended to the collection the first created
C5_Witness ==
  /\ last.h = "acr_bg_choice"
  /\ \E i \in DOMAIN last.calls : last.calls[i].op = "append" /\ last.calls[i].ok
  /\ users[last.u].adaptive_pack_name = AdaptiveSlug(last.u)
  /\ Len(remote[AdaptiveSlug(last.u)]) >= 2

\* ------------------------------------------------------------ C6, C7

\* the owner opens flows of all four kinds around one pack, and cancels
\* rem_receive_item, run on an item message offered to the remove conversation
\* itself: it asks for confirmation and ends the conversation; pending_remove
\* is read and never popped
RemReceiveItem(u, m) ==
  LET r == Accepts("rem_conv", conv[u], MsgUpd(m))
      state == pending_remove[u]
      reply == IF ~state.present THEN "none"
               ELSE IF state.pack_id \notin 1..Len(packs) THEN "pack_missing"
               ELSE "confirm_removal"
  IN  /\ r.cb = "rem_receive_item"
      /\ conv' = ConvAfter(u, r.via, END)
      /\ last' = Event("rem_receive_item", u, reply, <<>>)
      /\ UNCHANGED <<users, packs, pack_items, pending_create, pending_remove,
                     pending_delete, pending_acr, user_data, remote, dup,
                     invoices, settings, inflight, open_prompts>>

\* delete_receive_item, run on an item message offered to the delete
\* conversation itself: same shape, pending_delete is read and never popped
DeleteReceiveItem(u, m) ==
  LET r == Accepts("delete_conv", conv[u], MsgUpd(m))
      state == pending_delete[u]
      reply == IF ~state.present \/ state.pack_id = 0 THEN "none"
               ELSE "confirm_deletion"
  IN  /\ r.cb = "delete_receive_item"
      /\ conv' = ConvAfter(u, r.via, END)
      /\ last' = Event("delete_receive_item", u, reply, <<>>)
      /\ UNCHANGED <<users, packs, pack_items, pending_create, pending_remove,
                     pending_delete, pending_acr, user_data, remote, dup,
                     invoices, settings, inflight, open_prompts>>

NextCancel ==
  \/ \E arg \in PackTypes : CreateCmd(OWNER_ID, arg)
  \/ CreateReceiveName(OWNER_ID, NameOk)
  \/ CreateReceiveFirstItem(OWNER_ID, StickerMsg(<<"file", 1>>), TRUE, TRUE, TRUE)
  \/ Acr(OWNER_ID)
  \/ Rem(OWNER_ID)
  \/ \E p \in 1..MaxPacks : RemPackPick(OWNER_ID, p)
  \/ \E arg \in PackTypes : DeleteCmd(OWNER_ID, arg)
  \/ \E p \in 1..MaxPacks : DelPackPick(OWNER_ID, p)
  \/ CancelAll(OWNER_ID)

SpecCancel == Init /\ [][NextCancel]_vars

\* user u has no pending entry of any flow
NoFlowState(u) ==
  /\ ~pending_create[u].present
  /\ ~pending_remove[u].present
  /\ ~pending_delete[u].present
  /\ ~pending_acr[u].present

\* only the remove conversation runs, and it waits for the item
OnlyRemAwaitingItem == [NoConv EXCEPT !.rem = REM_WAIT_ITEM]

\* a fresh create entry: the type and the tier, no title and no slug yet
FreshCreate(meta) ==
  meta.present /\ ~meta.named /\ meta.slug = NoSlug /\ meta.title = <<>>

\* C6: /cancel sent while only the remove flow runs, waiting for its item,
\* is handled by cancel_all, leaves the user without a pending entry of any
\* kind and with the remove conversation ended, and a /create accepted next
\* starts the create flow at its first state with a fresh entry
C6_CancelInRemoveFlow ==
  /\ [](\A u \in Users :
          conv[u] = OnlyRemAwaitingItem =>
            Route(u, CmdUpd("cancel")) = Via("rem", "cancel_all"))
  /\ [][/\ \A u \in Users :
             /\ last'.h = "cancel_all"
             /\ last'.u = u
             /\ last'.from = OnlyRemAwaitingItem
             => NoFlowState(u)' /\ conv'[u] = NoConv
        /\ /\ last.h = "cancel_all"
           /\ last.from = OnlyRemAwaitingItem
           /\ last'.h = "create_cmd"
           /\ last'.u = last.u
           /\ last'.reply = "send_name"
           => /\ conv'[last.u] = [NoConv EXCEPT !.create = CREATE_WAIT_NAME]
              /\ FreshCreate(pending_create'[last.u])]_vars

\* the cancel of a lone remove flow waiting for its item has been handled
C6_Witness ==
  /\ last.h = "cancel_all"
  /\ last.from = OnlyRemAwaitingItem
  /\ NoFlowState(last.u)
  /\ conv[last.u] = NoConv

\* /cancel of user u finds a handler
CancelHandled(u) == Route(u, CmdUpd("cancel")).cb = "cancel_all"

\* a handled /cancel leaves its user without entries and conversations
CancelClearsAll ==
  \A u \in Users :
    last'.h = "cancel_all" /\ last'.u = u => NoFlowState(u)' /\ conv'[u] = NoConv

\* C7: /cancel is handled in every reachable state, with no flow, one flow
\* or several flows running, and after it the user has no pending entry and
\* all four conversations of the user are ended
C7_CancelAlwaysClearsAll ==
  [](\A u \in Users : CancelHandled(u)) /\ [][CancelClearsAll]_vars

\* ---------------------------------------------------------------- C8

\* users name packs with names around the ends of both ranges; the owner
\* may promote a user at any moment
NextName ==
  \/ \E u \in {OWNER_ID, Guest}, arg \in PackTypes : CreateCmd(u, arg)
  \/ \E u \in {OWNER_ID, Guest}, t \in EdgeNames : CreateReceiveName(u, t)
  \/ \E u \in {OWNER_ID, Guest} : AdminCmd(OWNER_ID, u)
  \/ \E u \in {OWNER_ID, Guest} : CancelAll(u)

SpecName == Init /\ [][NextName]_vars

\* the range the claim gives for a tier
InClaimedRange(paid, n) == IF paid THEN n \in 1..32 ELSE n \in 4..12

\* a name step in CREATE_WAIT_NAME judged by the range of tier paid[u]: out of
\* range it is refused and nothing is stored, in range the title and the slug
\* are stored and the flow waits for the first item; no gateway call either way
NameStepBy(paid) ==
  \A u \in {last'.u} \cap Users, t \in EdgeNames :
    (/\ last'.h = "create_receive_name"
     /\ conv[u].create = CREATE_WAIT_NAME
     /\ pending_create[u].present
     /\ CreateReceiveName(u, t))
    => /\ IF InClaimedRange(paid[u], Len(Strip(t)))
          THEN /\ conv'[u].create = CREATE_WAIT_FIRST_ITEM
               /\ pending_create'[u].named
               /\ pending_create'[u].title = Strip(t)
               /\ last'.reply = "send_first_item"
          ELSE /\ conv'[u].create = CREATE_WAIT_NAME
               /\ pending_create'[u] = pending_create[u]
               /\ ~pending_create'[u].named
               /\ last'.reply = "name_length_invalid"
       /\ GatewayCalls(last') = {}
       /\ remote' = remote

\* the tier of the user's row
TierNow == [u \in Users |-> users[u].is_paid]

\* the tier /create recorded in the flow's entry
TierOfFlow == [u \in Users |-> pending_create[u].is_paid]

\* C8 as stated: the name is judged by the range of the user's tier
C8_NameByUserTier == [][NameStepBy(TierNow)]_vars

\* C8: in CREATE_WAIT_NAME a name is judged by the range of the tier that
\* /create recorded when the flow began (free 4 to 12, paid 1 to 32): out of
\* range it is refused, the flow stays and no slug or title is stored; in
\* range the slug and title are stored and the flow advances to the first
\* item.  No call to a collection of the platform is made in either case
\* (the free branch asks the platform for the bot's username).
C8_NameByFlowTier == [][NameStepBy(TierOfFlow)]_vars

\* a flow has refused a name and kept waiting for another
C8_Witness ==
  /\ last.h = "create_receive_name"
  /\ last.reply = "name_length_invalid"
  /\ last.from.create = CREATE_WAIT_NAME
  /\ conv[last.u].create = CREATE_WAIT_NAME
  /\ pending_create[last.u].present
  /\ ~pending_create[last.u].named

\* ---------------------------------------------------------------- C9

\* user u is on the free tier and owns a pack of kind k
FreeOwnerOf(u, k) == ~users[u].is_paid /\ find_user_packs(packs, u, k) # {}

\* C9: /create for kind k from a free user who owns a pack of kind k reaches
\* no handler but create_cmd, which refuses it at once: no create entry is
\* made or changed, no conversation is entered, no remote call is made
C9_FreeSecondPackRejected ==
  /\ [](\A u \in Users, k \in PackTypes :
          FreeOwnerOf(u, k) => Route(u, CmdUpd("create")).cb \in {"create_cmd", "none"})
  /\ [][last'.h = "create_cmd" =>
          \A k \in PackTypes :
            FreeOwnerOf(last'.u, k) /\ CreateCmd(last'.u, k)
            => /\ last'.reply = "free_limit"
               /\ last'.calls = <<>>
               /\ UNCHANGED <<pending_create, conv, remote, packs, pack_items>>]_vars

\* a free owner of a pack has asked for a second pack of its kind and has
\* been turned away outside every flow
C9_Witness ==
  /\ last.h = "create_cmd"
  /\ last.reply = "free_limit"
  /\ conv[last.u] = NoConv
  /\ ~pending_create[last.u].present
  /\ \E k \in PackTypes : FreeOwnerOf(last.u, k)

\* --------------------------------------------------------------- C10

\* the sizes of the source pack: empty, one item, a few, one whose last
\* append is the tenth, and enough for two pauses of the copy loop
SrcLens == {0, 1, SrcShortLen, YieldEvery + 1, MaxSrcLen}

InitDup == \E n \in SrcLens : InitWith(n)

\* a user orders and pays a duplication; while the copy loop is paused other
\* updates are handled
NextDup ==
  \/ \E l \in Links : DuplicateCmd(Guest, l)
  \/ \E p \in invoices, a, b \in BOOLEAN : SuccessfulPayment(p, a, b)
  \/ DupResume
  \/ \E u \in Users : Start(u)

SpecDup == InitDup /\ [][NextDup]_vars

\* the calls of a copy that has made k appends without a failure: the create
\* with item 1, then items 2..k+1 in order, a pause after every tenth append
RECURSIVE Scripted(_, _, _)
Scripted(slug, items, k) ==
  IF k = 0 THEN <<RemoteCall("create", slug, items[1], TRUE)>>
  ELSE Scripted(slug, items, k - 1)
         \o <<RemoteCall("append", slug, items[k + 1], TRUE)>>
         \o (IF k % 10 = 0 THEN <<YieldMark>> ELSE <<>>)

\* the log of the copy after get_me and the fetch
CopyLog == SubSeq(dup.log, 3, Len(dup.log))

\* the copy has issued its create and the platform accepted it
CopyStarted == Len(dup.log) >= 3 /\ dup.log[3].op = "create" /\ dup.log[3].ok

\* the copy loop ran to its end
CopyDone == CopyStarted /\ ~dup.active /\ dup.log[Len(dup.log)].ok

\* C10: the settlement of a duplication creates the copy with item 1 of the
\* source and appends items 2..n one by one in the source order; it pauses
\* after the k-th append exactly when k is a multiple of 10, and the handler
\* is suspended nowhere else
C10_CopyOrderAndYields ==
  CopyStarted =>
    /\ dup.items = remote[dup.target]
    /\ \E k \in 0..(Len(dup.items) - 1) :
         /\ \/ CopyLog = Scripted(dup.slug, dup.items, k)
            \/ /\ k + 1 < Len(dup.items)
               /\ ~dup.active
               /\ CopyLog = Scripted(dup.slug, dup.items, k)
                              \o <<RemoteCall("append", dup.slug,
                                              dup.items[k + 2], FALSE)>>
         /\ remote[dup.slug] = SubSeq(dup.items, 1, k + 1)
         /\ dup.active => /\ k % 10 = 0 /\ k > 0
                          /\ CopyLog = Scripted(dup.slug, dup.items, k)
         /\ CopyDone => k = Len(dup.items) - 1

\* a source of more than twenty items has been copied whole, with two pauses
C10_Witness ==
  /\ CopyDone
  /\ Len(dup.items) > 2 * YieldEvery
  /\ remote[dup.slug] = dup.items
  /\ Cardinality({i \in DOMAIN dup.log : dup.log[i] = YieldMark}) = 2

\* ------------------------------------------------------------------ C11

\* the settlement ended on an append the platform refused
AppendFailed ==
  /\ last.h = "successful_payment_handler"
  /\ ~dup.active
  /\ dup.log # <<>>
  /\ dup.log[Len(dup.log)].op = "append"
  /\ ~dup.log[Len(dup.log)].ok

\* the copy holds the seeding item and every item appended before the failure
CopyKeepsAppended ==
  /\ dup.slug \in DOMAIN remote
  /\ remote[dup.slug] = <<dup.items[1]>> \o AppendedBy(dup.log)
  /\ Cardinality({i \in DOMAIN dup.log :
                    dup.log[i].op = "append" /\ ~dup.log[i].ok}) = 1

\* C11: when an append of the duplicate loop fails, no further append is
\* tried, the items already in the copy stay there, and the user is told of
\* a partial completion, not of a plain failure
C11_AppendFailureReportsPartial ==
  AppendFailed => CopyKeepsAppended /\ last.reply # "duplication_failed"

\* what the code does on a failed append: it stops, keeps the copy, and sends
\* the report of a failed duplication
C11_AppendFailureStopsAndKeeps ==
  AppendFailed => CopyKeepsAppended /\ last.reply = "duplication_failed"

C11_Witness == AppendFailed /\ Len(AppendedBy(dup.log)) > 0

\* ------------------------------------------------------------------ C12

NextCheckout ==
  \/ \E u \in {OWNER_ID, Guest}, arg \in CmdArgs : Bpack(u, arg)
  \/ \E u \in {OWNER_ID, Guest} : Apack(u)
  \/ \E l \in Links : DuplicateCmd(Guest, l)
  \/ \E u \in {OWNER_ID, Guest}, p \in invoices \cup ForgedPayloads : Precheckout(u, p)

SpecCheckout == Init /\ [][NextCheckout]_vars

\* the grammar read off the pieces of the payload: a first piece that is one
\* of the three operation names, with a separator behind it
InGrammar(payload) ==
  LET parts == Split(payload, ":")
  IN  Len(parts) >= 2 /\ parts[1] \in PayloadKinds

\* C12: the pre-charge validation accepts a payload exactly when it starts
\* with bpack:, apack: or duplicate:, and rejects every other payload, the
\* empty one included
C12_PrechargeGrammar ==
  last.h = "precheckout_handler" =>
    /\ last.reply \in {"ok", "invalid_invoice"}
    /\ last.reply = "ok" <=> InGrammar(last.payload)

C12_Witness ==
  /\ last.h = "precheckout_handler"
  /\ last.reply = "ok"
  /\ last.payload \in invoices
  /\ Len(Split(last.payload, ":")) = 4

\* ------------------------------------------------------------------ C13

NextUpgrade ==
  \/ \E u \in {OWNER_ID, Guest}, arg \in CmdArgs : Bpack(u, arg)
  \/ \E u \in {OWNER_ID, Guest} : Start(u)
  \/ \E u \in {OWNER_ID, Guest}, p \in invoices : Precheckout(u, p)
  \/ \E p \in invoices, a, b \in BOOLEAN : SuccessfulPayment(p, a, b)

SpecUpgrade == Init /\ [][NextUpgrade]_vars

\* the settlement of a tier-upgrade payload has just been answered
UpgradeSettled ==
  last.h = "successful_payment_handler" /\ last.reply = "paid_unlocked"

\* C13: once the confirmation of a tier-upgrade payment of user u has been
\* processed, a read of u's record returns the paid flag set, whatever u did
\* before, also when u only ever sent the purchase command
C13_UpgradeMakesPaid ==
  UpgradeSettled => get_or_create_user(users, last.u)[last.u].is_paid

\* ------------------------------------------------------------------ C14

NextLink ==
  \/ \E l \in LinkInputs : DuplicateCmd(Guest, l)
  \/ \E p \in invoices \cup ForgedPayloads : Precheckout(Guest, p)
  \/ \E p \in invoices, a, b \in BOOLEAN : SuccessfulPayment(p, a, b)

SpecLink == Init /\ [][NextLink]_vars

\* the settlement that has just run asked the platform for this collection
FetchedSource(slug) ==
  /\ dup'.target = slug
  /\ \E i \in DOMAIN dup'.log : dup'.log[i].op = "fetch" /\ dup'.log[i].slug = slug

\* C14: for every link L the duplicate command takes (full link, link without
\* scheme, bare slug), the settlement of the payload built from L fetches the
\* collection the link parser names for L
C14_PayloadKeepsLink ==
  [][last'.h = "successful_payment_handler" =>
       \A l \in LinkInputs, a, b \in BOOLEAN :
         (parse_pack_link(l) # NoSlug
            /\ SuccessfulPayment(PayloadText(DUPLICATE, Guest, l), a, b))
           => FetchedSource(parse_pack_link(l))]_vars

\* ------------------------------------------------------------------ C15

\* the ledger holds an item row of collection p with file id f
HasItemRow(items, p, f) ==
  \E r \in BagToSet(items) : r.pack_id = p /\ r.file_id = f

NextConfirm ==
  \/ \E arg \in PackTypes : CreateCmd(Guest, arg)
  \/ CreateReceiveName(Guest, NameOk)
  \/ \E m \in StickerInputs :
       packs = <<>> /\ CreateReceiveFirstItem(Guest, m, TRUE, TRUE, TRUE)
  \/ Rem(Guest)
  \/ \E p \in 1..Len(packs) : RemPackPick(Guest, p)
  \/ \E arg \in PackTypes : DeleteCmd(Guest, arg)
  \/ \E p \in 1..Len(packs) : DelPackPick(Guest, p)
  \/ CancelAll(Guest)
  \/ \E p \in 0..Len(packs), f \in FileIds, a \in BOOLEAN : RemConfirm(Guest, p, f, a)

SpecConfirm == Init /\ [][NextConfirm]_vars

\* what the removal of (p, f) does to the platform and to the ledger, told
\* from the token and the platform's answer alone
RemovalOf(p, f, ok) ==
  IF ok /\ HoldersOf(remote, f) # {}
  THEN /\ \E sl \in HoldersOf(remote, f) :
            remote' = [remote EXCEPT ![sl] = RemoveFirst(@, f)]
       /\ pack_items' = remove_pack_item_if_exists(pack_items, p, f)
       /\ ~HasItemRow(pack_items', p, f)
  ELSE UNCHANGED <<remote, pack_items>>

\* a removal confirmation reaches rem_confirm in every state of the flows
ConfirmAlwaysHandled ==
  \A u \in Users : Route(u, CbUpd("remconf")).cb = "rem_confirm"

ConfirmByTokenOnly ==
  last'.h = "rem_confirm" =>
    \A p \in 1..Len(packs), f \in FileIds, a \in BOOLEAN :
      RemConfirm(Guest, p, f, a) =>
        /\ RemovalOf(p, f, a)
        /\ UNCHANGED <<conv, pending_remove, pending_delete>>

C16_WitnessOpenFlow ==
  /\ last.h = "rem_confirm"
  /\ last.reply = "removed"
  /\ pending_remove[last.u].present
  /\ last.from.rem = REM_WAIT_ITEM

\* ------------------------------------------------------------------ C17

\* C17: when the remote create fails in AwaitingFirstItem the create flow
\* ends Aborted, the failure is reported, and the user's create Flow State
\* (kind, tier, title, slug) is discarded
C17_FailedCreateDiscardsFlowState ==
  CreateJustFailed(last) =>
    /\ conv[last.u].create = END
    /\ last.reply = "create_failed"
    /\ pending_create[last.u] = NoCreate

\* what the code does: the flow ends and the failure is reported, the entry
\* of pending_create stays as it was
C17_FailedCreateEndsFlow ==
  [][CreateJustFailed(last') =>
       /\ conv'[last'.u].create = END
       /\ last'.reply = "create_failed"
       /\ UNCHANGED pending_create
       /\ pending_create[last'.u].present]_vars

\* ------------------------------------------------------------------ C18

\* a sticker for an emoji collection, a custom emoji for a sticker collection
KindMismatch(pack_type, m) ==
  \/ pack_type = "emoji" /\ m.kind = "sticker"
  \/ pack_type = "sticker" /\ m.kind = "cemoji"

\* C18: in AwaitingFirstItem an item of the wrong kind leaves the create flow
\* in AwaitingFirstItem, leaves the Flow State and the ledger as they were
\* and makes no remote call
C18_MismatchStaysInFirstItem ==
  [][last'.h = "create_receive_first_item" =>
       \A m \in StickerInputs, a \in BOOLEAN :
         (/\ pending_create[Guest].present
          /\ KindMismatch(pending_create[Guest].type, m)
          /\ CreateReceiveFirstItem(Guest, m, a, TRUE, TRUE))
         => /\ conv'[Guest].create = CREATE_WAIT_FIRST_ITEM
            /\ last'.from.create = CREATE_WAIT_FIRST_ITEM
            /\ last'.calls = <<>>
            /\ UNCHANGED <<pending_create, users, packs, pack_items, remote>>]_vars

\* an item of the wrong kind has just been turned away
C18_Witness ==
  /\ last.h = "create_receive_first_item"
  /\ last.reply = "wrong_item"
  /\ last.from.create = CREATE_WAIT_FIRST_ITEM
  /\ pending_create[last.u].present
  /\ pending_create[last.u].named

\* ------------------------------------------------------------------ C19

\* the event just handled issued a remote create that succeeded
CreateJustSucceeded(ev) ==
  /\ ev.h = "create_receive_first_item"
  /\ \E i \in DOMAIN ev.calls : ev.calls[i].op = "create" /\ ev.calls[i].ok

\* C19: a ledger write that fails after the remote create succeeded is
\* swallowed: the user still gets the success confirmation and the create
\* flow ends Committed with its Flow State cleared
C19_LedgerFailureSwallowed ==
  [][CreateJustSucceeded(last') =>
       \A dbPackOk, dbItemOk \in BOOLEAN :
         (/\ ~(dbPackOk /\ dbItemOk)
          /\ CreateReceiveFirstItem(OWNER_ID, StickerMsg(<<"file", 1>>),
                                    TRUE, dbPackOk, dbItemOk))
         => /\ last'.reply = "pack_created"
            /\ conv'[OWNER_ID].create = END
            /\ pending_create'[OWNER_ID] = NoCreate]_vars

\* what the code does when only the item row fails: that failure is swallowed
C19_ItemRowFailureSwallowed ==
  [][(/\ CreateJustSucceeded(last')
      /\ packs' # packs
      /\ CreateReceiveFirstItem(OWNER_ID, StickerMsg(<<"file", 1>>),
                                TRUE, TRUE, FALSE))
       => /\ last'.reply = "pack_created"
          /\ conv'[OWNER_ID].create = END
          /\ pending_create'[OWNER_ID] = NoCreate
          /\ UNCHANGED pack_items]_vars

\* ------------------------------------------------------------------ C20

\* the owner walks the create and the adaptive flow and sends their entry
\* commands at every point
NextReentry ==
  \/ \E arg \in PackTypes : CreateCmd(OWNER_ID, arg)
  \/ CreateReceiveName(OWNER_ID, NameOk)
  \/ Acr(OWNER_ID)
  \/ \E m \in Msgs : AcrReceive(OWNER_ID, m)
  \/ CancelAll(OWNER_ID)
  \/ \E c \in {"create", "acr"} : Dropped(OWNER_ID, CmdUpd(c))

SpecReentry == Init /\ [][NextReentry]_vars

\* /create <arg> has been sent by u and processed
SentCreate(u, arg) == CreateCmd(u, arg) \/ Dropped(u, CmdUpd("create"))

\* /acr has been sent by u and processed
SentAcr(u) == Acr(u) \/ Dropped(u, CmdUpd("acr"))

\* C20: there is one Flow State per user and flow kind at most, and the
\* entry command of a flow sent while that flow is in progress replaces the
\* Flow State by a fresh one and puts the flow back in its first state
C20_EntryCommandRestarts ==
  [][last'.h \in {"unhandled", "create_cmd", "acr"} =>
       /\ \A arg \in PackTypes :
            (conv[OWNER_ID].create # END /\ SentCreate(OWNER_ID, arg))
              => /\ conv'[OWNER_ID].create = CREATE_WAIT_NAME
                 /\ FreshCreate(pending_create'[OWNER_ID])
       /\ (conv[OWNER_ID].acr # END /\ SentAcr(OWNER_ID))
            => /\ conv'[OWNER_ID].acr = ACR_WAIT_INPUT
               /\ pending_acr'[OWNER_ID] = [NoAcr EXCEPT !.present = TRUE]]_vars

\* what the code does: an entry command sent during its own flow is dropped
C20_EntryCommandIgnored ==
  \A u \in Users :
    /\ conv[u].create # END => Route(u, CmdUpd("create")) = NoRoute
    /\ conv[u].acr # END => Route(u, CmdUpd("acr")) = NoRoute

\* ------------------------------------------------------------------ C21

\* the terminal step (a create of or an append to the adaptive collection)
\* is taken by the background choice in AwaitingBackground
TerminalAfterBackground ==
  (last'.h \in {"acr", "acr_receive", "acr_font_choice", "acr_bg_choice"}
     /\ GatewayCalls(last') # {})
    => /\ last'.h = "acr_bg_choice"
       /\ conv[last'.u].acr = ACR_WAIT_BG
       /\ (pending_acr[last'.u].mode = "text")
            <=> (pending_acr[last'.u].font_idx \in FontIdx)

\* the fork at the input: text goes to the font, a photo or a custom emoji
\* goes straight to the background, anything else stays
InputFork ==
  last'.h = "acr_receive" =>
    \A m \in Msgs :
      AcrReceive(OWNER_ID, m) =>
        /\ conv[OWNER_ID].acr = ACR_WAIT_INPUT
        /\ (conv'[OWNER_ID].acr = ACR_WAIT_FONT) <=> (m.kind = "text")
        /\ (conv'[OWNER_ID].acr = ACR_WAIT_BG) <=> (m.kind \in {"photo", "cemoji"})

\* AwaitingFont is entered from the input only, AwaitingBackground from the
\* input or from the font
FlowOrder ==
  \A u \in Users :
    /\ (conv'[u].acr = ACR_WAIT_FONT /\ conv[u].acr # ACR_WAIT_FONT)
         => conv[u].acr = ACR_WAIT_INPUT /\ last'.h = "acr_receive"
    /\ (conv'[u].acr = ACR_WAIT_BG /\ conv[u].acr # ACR_WAIT_BG)
         => \/ conv[u].acr = ACR_WAIT_INPUT /\ last'.h = "acr_receive"
            \/ conv[u].acr = ACR_WAIT_FONT /\ last'.h = "acr_font_choice"

\* C21: in the adaptive flow the remote create or append happens only at a
\* background choice made in AwaitingBackground; the flow passes through
\* AwaitingFont exactly when the input was text, and a photo or a custom
\* emoji goes from AwaitingInput straight to AwaitingBackground
C21_AdaptiveFlowOrder ==
  [][TerminalAfterBackground /\ InputFork /\ FlowOrder]_vars

\* a text input has gone through font and background and was committed
C21_Witness ==
  /\ last.h = "acr_bg_choice"
  /\ last.reply = "added"
  /\ last.from.acr = ACR_WAIT_BG
  /\ \E i \in DOMAIN last.calls : last.calls[i].item = PNG /\ last.calls[i].ok

\* a photo input has gone straight to the background and was committed
C21_WitnessPhoto ==
  /\ last.h = "acr_bg_choice"
  /\ last.reply = "added"
  /\ \E i \in DOMAIN last.calls : last.calls[i].item \in FileIds /\ last.calls[i].ok

\* ------------------------------------------------------------------ C22

\* the number of rows of a ledger table
RowCount(items) == SumCopies(items, BagToSet(items))

\* a press that appends remotely or writes an item row uses up the stash
PressUsesStash ==
  (last'.h = "addto_callback" /\ (last'.calls # <<>> \/ pack_items' # pack_items))
    => /\ user_data[last'.u] # NoMsg
       /\ user_data'[last'.u] = NoMsg
       /\ Len(last'.calls) = 1
       /\ RowCount(pack_items') <= RowCount(pack_items) + 1

\* only a new item message fills the stash again
StashFilledByItemOnly ==
  \A u \in Users :
    (user_data[u] = NoMsg /\ user_data'[u] # NoMsg)
      => last'.h = "incoming_item" /\ last'.u = u

\* C22: the same add-to press replayed for one stashed item, with no new item
\* message between the presses, appends remotely at most once and inserts
\* at most one ledger item row
C22_AddtoReplayHarmless == [][PressUsesStash /\ StashFilledByItemOnly]_vars

\* a replayed press found the stash empty after the first press had appended
C22_Witness ==
  /\ last.h = "addto_callback"
  /\ last.reply = "item_missing"
  /\ \E r \in BagToSet(pack_items) : r.file_id = FILE

\* ------------------------------------------------------------------ C23

\* the press just handled issued an append that the platform refused
AppendJustFailed(ev) ==
  /\ ev.h = "addto_callback"
  /\ \E i \in DOMAIN ev.calls : ev.calls[i].op = "append" /\ ~ev.calls[i].ok

\* C23: when the remote append of an add-to fails, no ledger item row is
\* inserted and the item count of the collection stays what it was
C23_FailedAppendWritesNothing ==
  [][AppendJustFailed(last') =>
       /\ UNCHANGED pack_items
       /\ \A p \in 1..Len(packs) :
            count_pack_items(pack_items', p) = count_pack_items(pack_items, p)
       /\ last'.reply = "failed"]_vars

\* an add-to press whose append was refused, on a collection that has rows
C23_Witness ==
  /\ AppendJustFailed(last)
  /\ last.reply = "failed"
  /\ pack_items # EmptyBag

\* ------------------------------------------------------------------ C24

\* the owner and another user send the owner-only commands
NextOwnerOnly ==
  \/ \E u \in {OWNER_ID, Guest}, t \in {OWNER_ID, Guest} : AdminCmd(u, t)
  \/ \E u \in {OWNER_ID, Guest}, arg \in SetArgs : SetCmd(u, arg)
  \/ \E u \in {OWNER_ID, Guest} : BroadcastCmd(u)
  \/ \E u \in {OWNER_ID, Guest} : Apack(u)
  \/ \E u \in {OWNER_ID, Guest} : Acr(u)
  \/ \E u \in {OWNER_ID, Guest} : CancelAll(u)

SpecOwnerOnly == Init /\ [][NextOwnerOnly]_vars

OwnerOnlyHandlers == {"admin_cmd", "set_cmd", "broadcast_cmd", "apack", "acr"}

\* C24: an owner-only operation (admin promotion, settings toggle, broadcast,
\* adaptive purchase, adaptive-create entry) invoked by another user is
\* rejected and changes nothing: user records, settings, collections, items
\* and Flow States stay, no flow is entered and no invoice is sent
C24_OwnerOnlyRejected ==
  [][(last'.h \in OwnerOnlyHandlers /\ last'.u # OWNER_ID) =>
       /\ last'.reply \in {"unauthorized", "owner_only"}
       /\ last'.calls = <<>>
       /\ UNCHANGED <<users, settings, packs, pack_items, remote, conv,
                      pending_create, pending_remove, pending_delete,
                      pending_acr, user_data, invoices, dup>>]_vars

\* another user has tried to promote themselves after the owner changed the
\* settings and opened the adaptive flow
C24_Witness ==
  /\ last.h = "admin_cmd"
  /\ last.u = Guest
  /\ last.reply = "unauthorized"
  /\ ~settings
  /\ conv[OWNER_ID].acr = ACR_WAIT_INPUT

\* ------------------------------------------------------------------ C25

\* the owner walks the adaptive flow, opens the create flow beside it,
\* cancels, and presses font and background buttons at every point
NextExpired ==
  \/ Acr(OWNER_ID)
  \/ \E m \in Msgs : AcrReceive(OWNER_ID, m)
  \/ \E i \in FontIdx : AcrFontChoice(OWNER_ID, i)
  \/ \E mode \in BgModes, a \in BOOLEAN : AcrBgChoice(OWNER_ID, mode, a)
  \/ \E arg \in PackTypes : CreateCmd(OWNER_ID, arg)
  \/ CancelAll(OWNER_ID)
  \/ \E c \in {"acr_font", "acr_bg"} : Dropped(OWNER_ID, CbUpd(c))

SpecExpired == Init /\ [][NextExpired]_vars

\* a font or background button press of u has been processed
PressedAcrButton(u) ==
  \/ \E i \in FontIdx : AcrFontChoice(u, i)
  \/ \E mode \in BgModes, a \in BOOLEAN : AcrBgChoice(u, mode, a)
  \/ \E c \in {"acr_font", "acr_bg"} : Dropped(u, CbUpd(c))

\* the answer to a press that finds no Flow State
ExpiredAnswer(u) ==
  /\ last'.reply = "state_expired"
  /\ conv'[u].acr = END
  /\ last'.calls = <<>>
  /\ UNCHANGED <<users, packs, pack_items, remote>>

\* C25: whenever a font or background button press of the adaptive flow
\* arrives for a user whose adaptive Flow State no longer exists, the user
\* gets the state-expired message, the flow ends, and no remote call and no
\* ledger write is made
C25_ExpiredPressAnswered ==
  [][last'.h \in {"acr_font_choice", "acr_bg_choice", "unhandled"} =>
       ((~pending_acr[OWNER_ID].present /\ PressedAcrButton(OWNER_ID))
          => ExpiredAnswer(OWNER_ID))]_vars

\* what the code does: the message is sent when the press reaches a handler,
\* that is while the conversation still waits for that button
C25_ExpiredInsideConversation ==
  [][last'.h \in {"acr_font_choice", "acr_bg_choice"} =>
       ((~pending_acr[OWNER_ID].present /\ PressedAcrButton(OWNER_ID))
          => ExpiredAnswer(OWNER_ID))]_vars

\* ------------------------------------------------------------------ C26

\* the handler that takes a sticker or photo message of user u
ItemTakenBy(u, m) == Route(u, MsgUpd(m)).cb

\* C26: while the remove flow of a user waits for its item, or the delete
\* flow has its collection selected, a sticker or photo of that user goes to
\* the item-capture step of that flow and to no other handler
C26_ItemRoutedToCapture ==
  \A u \in Users, f \in FileIds :
    \A m \in {StickerMsg(f), PhotoMsg(f)} :
      /\ conv[u].rem = REM_WAIT_ITEM => ItemTakenBy(u, m) = "rem_receive_item"
      /\ (conv[u].delete = DELETE_WAIT_PACK_SELECT /\ pending_delete[u].pack_id # 0
            /\ conv[u].rem # REM_WAIT_ITEM)
           => ItemTakenBy(u, m) = "delete_receive_item"

\* what the code does: outside the create and adaptive flows every sticker
\* or photo is taken by the stateless add-item handler
C26_ItemTakenByAddItem ==
  \A u \in Users, f \in FileIds :
    \A m \in {StickerMsg(f), PhotoMsg(f)} :
      (conv[u].create = END /\ conv[u].acr = END)
        => ItemTakenBy(u, m) = "incoming_item"

\* ------------------------------------------------------------------ C27

EarlyAnswers == {"canceled", "pack_not_found", "limit", "item_missing"}

\* a user with one sticker pack, one item below its cap, sends items and
\* presses add-to while a paid duplication runs and pauses; every handler
\* starts only when the application dispatches
NextRace ==
  \/ CanDispatch /\ CreateCmd(Guest, "sticker")
  \/ CanDispatch /\ CreateReceiveName(Guest, NameOk)
  \/ CanDispatch /\ packs = <<>>
       /\ CreateReceiveFirstItem(Guest, StickerMsg(<<"file", 1>>), TRUE, TRUE, TRUE)
  \/ CanDispatch /\ IncomingItem(Guest, StickerMsg(<<"file", 1>>))
  \/ \E d \in 0..(Len(packs) + 1) :
       /\ CanDispatch
       /\ AddtoCallback(Guest, d, TRUE, TRUE, TRUE)
       /\ last'.reply \in EarlyAnswers
  \/ \E d \in 1..Len(packs) : AddtoBegin(Guest, d)
  \/ \E i \in DOMAIN inflight, a, c \in BOOLEAN : AddtoFinish(i, TRUE, a, c)
  \/ \E l \in Links : CanDispatch /\ DuplicateCmd(Guest, l)
  \/ \E p \in invoices : CanDispatch /\ SuccessfulPayment(p, TRUE, TRUE)
  \/ CanDispatch /\ DupResume

SpecRace == InitWith(YieldEvery + 1) /\ [][NextRace]_vars

\* while an add-to press is suspended between its quota check and its item
\* row, the next thing that happens is the rest of that press
NothingBetweenCheckAndInsert ==
  inflight # <<>> =>
    /\ Len(inflight) = 1
    /\ inflight' = <<>>
    /\ last'.h = "addto_callback"
    /\ last'.u = inflight[1].u

\* C27: under every interleaving the dispatch admits (other events run only
\* at the pauses of the duplicate loop) no handler runs between the quota
\* check of an add-to and its ledger insert, so two add-to operations on the
\* same collection that both start one item below the cap cannot both insert
C27_AddtoCheckAndInsertAtomic ==
  []ItemCapHolds /\ [][NothingBetweenCheckAndInsert]_vars

\* an add-to press has passed its check one item below the cap and is
\* suspended, while the duplicate loop is at a pause
C27_Witness ==
  /\ Len(inflight) = 1
  /\ dup.active
  /\ count_pack_items(pack_items, inflight[1].pack_id)
       = ItemLimit(packs[inflight[1].pack_id]) - 1


\* ------------------------------------------------- C28: flow completion

\* the remove and delete conversations with their capture steps, next to the
\* create flow; the item message is offered to the conversation that waits
\* for it
NextCapture ==
  \/ \E arg \in PackTypes : CreateCmd(OWNER_ID, arg)
  \/ CreateReceiveName(OWNER_ID, NameOk)
  \/ CreateReceiveFirstItem(OWNER_ID, StickerMsg(<<"file", 1>>), TRUE, TRUE, TRUE)
  \/ Rem(OWNER_ID)
  \/ \E p \in 1..MaxPacks : RemPackPick(OWNER_ID, p)
  \/ \E m \in StickerInputs : RemReceiveItem(OWNER_ID, m)
  \/ \E arg \in PackTypes : DeleteCmd(OWNER_ID, arg)
  \/ \E p \in 1..MaxPacks : DelPackPick(OWNER_ID, p)
  \/ \E m \in StickerInputs : DeleteReceiveItem(OWNER_ID, m)
  \/ CancelAll(OWNER_ID)

SpecCapture == Init /\ [][NextCapture]_vars

\* the flow of the last event completed: it committed, or it prompted for
\* confirmation and ended
CompletedFlow ==
  CASE last.h = "create_receive_first_item" /\ last.reply = "pack_created" -> "create"
    [] last.h = "acr_bg_choice" /\ last.reply = "added" -> "acr"
    [] last.h = "rem_receive_item" /\ last.reply = "confirm_removal" -> "rem"
    [] last.h = "delete_receive_item" /\ last.reply = "confirm_deletion" -> "delete"
    [] OTHER -> "none"

HasFlowState(u, kind) ==
  CASE kind = "create" -> pending_create[u].present
    [] kind = "acr" -> pending_acr[u].present
    [] kind = "rem" -> pending_remove[u].present
    [] kind = "delete" -> pending_delete[u].present
    [] OTHER -> FALSE

C28_CreateCommitDestroysFlowState ==
  CompletedFlow = "create" =>
    /\ conv[last.u].create = END
    /\ ~HasFlowState(last.u, "create")


\* ------------------------------------------------- C29: one pack per kind

\* a user creates packs of both kinds, adds and removes items, buys the paid
\* tier and orders and pays a duplication
NextTier ==
  \/ \E arg \in PackTypes : CreateCmd(Guest, arg)
  \/ CreateReceiveName(Guest, NameOk)
  \/ \E m \in StickerInputs : CreateReceiveFirstItem(Guest, m, TRUE, TRUE, TRUE)
  \/ Len(packs) = 1 /\ IncomingItem(Guest, StickerMsg(<<"file", 1>>))
  \/ Len(packs) = 1 /\ AddtoCallback(Guest, 1, TRUE, TRUE, TRUE)
  \/ Len(packs) = 1 /\ RemConfirm(Guest, 1, <<"file", 1>>, TRUE)
  \/ invoices = {} /\ Bpack(Guest, "sticker")
  \/ invoices = {} /\ DuplicateCmd(Guest, LinkBare)
  \/ \E p \in invoices : SuccessfulPayment(p, TRUE, TRUE)

SpecTier == Init /\ [][NextTier]_vars

PacksOwned(u, kind) == Cardinality(find_user_packs(packs, u, kind))

\* C29: whatever create-flow, add-to, removal and settlement steps have run,
\* a user whose paid flag is unset owns at most one ledger pack of each kind
C29_UnpaidOwnsOnePerKind ==
  \A u \in Users, kind \in PackTypes :
    ~users[u].is_paid => PacksOwned(u, kind) <= 1

\* an unpaid owner of a sticker pack has just been refused a second one
C29_Witness ==
  /\ last.h = "create_cmd"
  /\ last.reply = "free_limit"
  /\ ~users[last.u].is_paid
  /\ PacksOwned(last.u, "sticker") = 1

\* an unpaid owner of a sticker pack has paid a duplication, which was run
\* and settled without a ledger pack
C29_WitnessSettled ==
  /\ last.h = "successful_payment_handler"
  /\ last.reply = "duplication_failed"
  /\ dup.slug \in DOMAIN remote
  /\ ~users[last.u].is_paid
  /\ PacksOwned(last.u, "sticker") = 1

\* with the paid flag set the same user gets a second pack of the kind
C29_WitnessPaidSecond ==
  \E u \in Users : users[u].is_paid /\ PacksOwned(u, "sticker") = 2


\* ------------------------------------------------- C30: rows and items

\* a user creates a pack, adds items and confirms removals; every ledger
\* write succeeds, remote calls may fail
NextCount ==
  \/ \E arg \in PackTypes : CreateCmd(Guest, arg)
  \/ CreateReceiveName(Guest, NameOk)
  \/ \E m \in StickerInputs, a \in BOOLEAN :
       CreateReceiveFirstItem(Guest, m, a, TRUE, TRUE)
  \/ \E m \in StickerInputs : IncomingItem(Guest, m)
  \/ \E d \in 1..Len(packs), a, b \in BOOLEAN : AddtoCallback(Guest, d, a, b, TRUE)
  \/ CancelAll(Guest)
  \/ \E p \in 1..Len(packs), f \in FileIds, a \in BOOLEAN :
       RemConfirm(Guest, p, f, a)

SpecCount == Init /\ [][NextCount]_vars

\* the items the remote set of ledger pack p holds: only the bot changes the
\* set, so this is the number of items committed to it (the first item and
\* every successful append) less the items successful removals took out
CommittedLessRemoved(p) ==
  IF packs[p].name \in DOMAIN remote THEN Len(remote[packs[p].name]) ELSE 0

C30_RowsNeverFewer ==
  \A p \in 1..Len(packs) :
    count_pack_items(pack_items, p) >= CommittedLessRemoved(p)


\* ------------------------------------------------- C31: one key for both

\* the step removes, with success, the item the add-to just before it
\* appended, from the pack it was appended to
RemovalOfJustAdded(p, f) ==
  /\ last.h = "addto_callback"
  /\ last.reply = "added"
  /\ packs[p].name = last.calls[1].slug
  /\ f = last.calls[1].item
  /\ RemConfirm(last.u, p, f, TRUE)
  /\ last'.reply = "removed"

C31_AddedRowKeyedByFile ==
  [][(last'.h = "addto_callback" /\ last'.reply = "added") =>
       \E p \in 1..Len(packs) :
         pack_items' = insert_pack_item(pack_items, ItemRow(p, FILE, packs[p].type))]_vars


\* ------------------------------------------- C32, C33: rows that stay

\* a user is promoted, buys the paid tier, creates packs, imports backups,
\* adds and removes items
NextRows ==
  \/ Start(Guest)
  \/ \E arg \in PackTypes : CreateCmd(Guest, arg)
  \/ CreateReceiveName(Guest, NameOk)
  \/ \E m \in StickerInputs : CreateReceiveFirstItem(Guest, m, TRUE, TRUE, TRUE)
  \/ CancelAll(Guest)
  \/ AdminCmd(OWNER_ID, Guest)
  \/ invoices = {} /\ Bpack(Guest, "sticker")
  \/ \E p \in invoices : SuccessfulPayment(p, TRUE, TRUE)
  \/ \E doc \in ImportDocs :
       Len(packs) < MaxPacks /\ pack_items = EmptyBag /\ ImportCmd(Guest, doc)
  \/ ExportCmd(Guest)
  \/ Len(packs) = 1 /\ IncomingItem(Guest, StickerMsg(<<"file", 1>>))
  \/ Len(packs) = 1 /\ AddtoCallback(Guest, 1, TRUE, TRUE, TRUE)
  \/ Len(packs) = 1 /\ RemConfirm(Guest, 1, <<"file", 1>>, TRUE)

SpecRows == Init /\ [][NextRows]_vars

\* the step keeps every user row and every pack row, the pack rows as they
\* were inserted
RowsKept ==
  /\ \A u \in Users : users[u].exists => users'[u].exists
  /\ Len(packs') >= Len(packs)
  /\ \A p \in 1..Len(packs) : packs'[p] = packs[p]

\* C32: no operation deletes a user row, deletes a pack row or changes an
\* existing pack row: every step keeps the rows of the state before it, and
\* a pack's owner, slug, title, kind, paid flag and link stay as inserted
C32_RowsOnlyAdded == [][RowsKept]_vars

\* a second pack has been inserted next to an earlier, different one
C32_Witness ==
  /\ Len(packs) = 2
  /\ packs[1] # packs[2]
  /\ users[Guest].exists
  /\ last.reply \in {"pack_created", "import_complete"}

\* C33: the paid flag of a user is monotonic: no step clears a flag that
\* is set
C33_PaidFlagMonotonic ==
  [][\A u \in Users : users[u].is_paid => users'[u].is_paid]_vars

\* a user whose flag is set has gone through a handler that reads or
\* creates the user row
C33_Witness ==
  /\ users[Guest].is_paid
  /\ last.u = Guest
  /\ last.h \in {"start", "create_cmd"}

\* the flag was set by the settlement of a tier purchase
C33_WitnessSettled ==
  /\ users[Guest].is_paid
  /\ ~users[Guest].is_admin
  /\ last.h = "create_cmd"


\* ------------------------------------------------- C34: which item

\* a user with an emoji pack sends custom emoji and texts and presses the
\* buttons of the prompts
PromptItems == {EmojiMsg(<<"file", 1>>), TextMsg(NameOk)}

NextPrompt ==
  \/ CreateCmd(Guest, "emoji")
  \/ CreateReceiveName(Guest, NameOk)
  \/ CreateReceiveFirstItem(Guest, EmojiMsg(<<"file", 1>>), TRUE, TRUE, TRUE)
  \/ \E m \in PromptItems : IncomingItem(Guest, m)
  \/ \E d \in 0..Len(packs), a \in BOOLEAN : AddtoCallback(Guest, d, TRUE, a, TRUE)

SpecPrompt == Init /\ [][NextPrompt]_vars

\* the step is a press of user u for pack d whose forward succeeds and which
\* issues the remote append
PressAppends(u, d) ==
  /\ last'.h = "addto_callback"
  /\ last'.calls # <<>>
  /\ \E a \in BOOLEAN : AddtoCallback(u, d, TRUE, a, TRUE)

\* C34: a press on the prompt of item a appends item a, whichever of the
\* open prompts is the pressed one, also when another item was sent after a
C34_PressAppendsPromptItem ==
  [][last'.h = "addto_callback" =>
       \A a \in open_prompts[Guest], d \in 1..Len(packs) :
         PressAppends(Guest, d) =>
           last'.calls[1].item = AddtoItemOf(packs[d].type, a)]_vars

\* what the code does: the press appends the item sent last
C34_PressAppendsLatestItem ==
  [][last'.h = "addto_callback" =>
       \A d \in 1..Len(packs) :
         PressAppends(Guest, d) =>
           last'.calls[1].item = AddtoItemOf(packs[d].type, user_data[Guest])]_vars


\* ------------------------------------------------- C35: kinds

\* a user with a sticker pack and an emoji pack sends stickers and custom
\* emoji and presses the buttons of the prompts
NextKinds ==
  \/ \E arg \in PackTypes : CreateCmd(Guest, arg)
  \/ \E t \in {NameOk, Rep("a", FREE_PACK_NAME_MIN_LEN)} : CreateReceiveName(Guest, t)
  \/ \E m \in StickerInputs : CreateReceiveFirstItem(Guest, m, TRUE, TRUE, TRUE)
  \/ \E m \in StickerInputs : IncomingItem(Guest, m)
  \/ \E d \in 1..Len(packs), a \in BOOLEAN : AddtoCallback(Guest, d, TRUE, a, TRUE)

SpecKinds == Init /\ [][NextKinds]_vars

\* an open prompt of user u carries the button of pack d
ButtonShown(u, d) ==
  \E a \in open_prompts[u] : d \in find_user_packs(packs, u, ItemPackType(a))

\* the step is a press of the button of pack d that issues a remote append
\* or inserts an item row
PressWrites(u, d) ==
  /\ ButtonShown(u, d)
  /\ \E a \in BOOLEAN : AddtoCallback(u, d, TRUE, a, TRUE)
  /\ (last'.calls # <<>> \/ pack_items' # pack_items)

\* C35: whatever the order of item messages and button presses, also with
\* presses on prompts of earlier items, add-to issues no remote append and
\* inserts no item row for an item whose kind is not the kind of the pack
C35_AddtoKeepsKind ==
  [][last'.h = "addto_callback" =>
       \A d \in 1..Len(packs) :
         PressWrites(Guest, d) => ItemPackType(user_data[Guest]) = packs[d].type]_vars

\* what the code keeps: the button a prompt shows is of the kind of the
\* item that produced the prompt
C35_PromptOffersOwnKind ==
  [][last'.h = "incoming_item" /\ last'.reply = "choose_pack" =>
       \A m \in StickerInputs :
         IncomingItem(Guest, m) =>
           \A d \in find_user_packs(packs, Guest, ItemPackType(m)) :
             packs[d].type = ItemPackType(m)]_vars


\* ------------------------------------------- C36, C37: import

\* the owner and a user create packs, add items, export and import backups
NextImport ==
  \/ CreateCmd(Guest, "sticker")
  \/ CreateReceiveName(Guest, NameOk)
  \/ CreateReceiveFirstItem(Guest, StickerMsg(<<"file", 1>>), TRUE, TRUE, TRUE)
  \/ IncomingItem(Guest, StickerMsg(<<"file", 1>>))
  \/ \E d \in 1..Len(packs) : AddtoCallback(Guest, d, TRUE, TRUE, TRUE)
  \/ \E u \in {OWNER_ID, Guest} : ExportCmd(u)
  \/ \E u \in {OWNER_ID, Guest}, doc \in ImportDocs :
       /\ Len(packs) < MaxPacks
       /\ BagCardinality(pack_items) <= PAID_MAX_ITEMS
       /\ ImportCmd(u, doc)

SpecImport == Init /\ [][NextImport]_vars

C37_ImportedPacksOwnedByImporter ==
  [][last'.h = "import_cmd" =>
       \A p \in (Len(packs) + 1)..Len(packs') : packs'[p].user_id = last'.u]_vars

==========================================================================
